---- MODULE Spec2Model ----
(***************************************************************************)
(* Pathway planner backend: the pathway optimizer                          *)
(* (app/services/optimizer.py), the advanced calculation engine with its   *)
(* process-wide result cache (app/services/advanced_calculator.py) and     *)
(* the result-retrieval endpoint (app/api/v1/advanced_endpoints.py).       *)
(*                                                                         *)
(* Adoption fractions live on a grid 0..MaxLevel, where level MaxLevel is  *)
(* the fraction 1.0 (the upper box bound).  Percentages are integers in    *)
(* 0..100, and an inequality between emissions is multiplied through by    *)
(* 100 so that it stays in the integers.                                   *)
(***************************************************************************)
EXTENDS Integers, Sequences, FiniteSets, TLC

VARIABLES
    opt_pc,          \* position inside optimize_transport_pathway
    opt_in,          \* the data map of the current optimize call
    opt_state,       \* initial_state, the flattened initial guess
    opt_constraints, \* the constraints list built by the call
    opt_solves,      \* every minimize() invocation of the call, in order
    opt_result,      \* the local variable `result` (last OptimizeResult)
    opt_exc,         \* exception raised inside the try block, if any
    opt_outcome,     \* "none", "returned" or "raised" (escaped the function)
    opt_ret,         \* the dictionary the call returned
    calculation_cache, \* advanced_engine.calculation_cache, in insertion order
    real_time_updates, \* the engine's real_time_updates flag, set by __init__
    clock,           \* what datetime.now() reads
    history,         \* results of the calculations that completed, in order
    calc_in,         \* scenario_data of the last calculate_scenario call
    calc_stages,     \* the stages the last calculate_scenario call ran
    resp,            \* what the last engine call or request gave its caller
    agg,             \* the last perform_comprehensive_aggregation call
    val,             \* the calls of validate_scenario_parameters on one map
    veh,             \* the calls of _calculate_vehicle_type, oldest first
    energy,          \* the last _calculate_energy_consumption call
    sval,            \* the last _validate_scenario_data call
    analysis,        \* the last analyze_constraints call
    db,              \* the scenarios table: parameters by id, ids counted from 1
    api,             \* the last request to the scenario routes and its answer
    tasks,           \* the requests the server accepted, each with its handler's position
    loop_running     \* the request whose handler the event loop runs; 0 when idle

optVars == <<opt_pc, opt_in, opt_state, opt_constraints, opt_solves,
             opt_result, opt_exc, opt_outcome, opt_ret>>

calcVars == <<calculation_cache, real_time_updates, clock, history, calc_in,
              calc_stages, resp>>

\* the calls of the functions that keep no state of their own, and the
\* state of the scenario routes
fnVars == <<agg, val, veh, energy, sval, analysis, db, api, tasks, loop_running>>

vars == <<optVars, calcVars, fnVars>>

(***************************************************************************)
(* Bounds of the model.                                                    *)
(***************************************************************************)
MaxYears == 4
MaxVehicleTypes == 2
MaxCells == 6
MaxLevel == 2
MaxCalcs == 2
MaxClock == 1
MaxAggYears == 2
MaxValYears == 2
MaxVehCalls == 3
MaxRoster == 2
MaxAnalysisYears == 2
MaxScenarios == 2
MaxRequests == 3

Levels == 0..MaxLevel

\* target_emissions_reduction, in percent
TargetChoices == {0, 50, 100}

\* max_annual_change, in grid levels (strictly inside the box)
ChangeChoices == 1..(MaxLevel - 1)

(***************************************************************************)
(* Python list indexing: x[k] with k counted from 0, a negative k counted  *)
(* from the end of the list.                                               *)
(***************************************************************************)
PyIndex(len, k) == IF k >= 0 THEN k + 1 ELSE len + k + 1

PyGet(x, k) == x[PyIndex(Len(x), k)]

RECURSIVE SumTo(_, _)
SumTo(f, n) == IF n = 0 THEN 0 ELSE f[n] + SumTo(f, n - 1)

Abs(v) == IF v >= 0 THEN v ELSE 0 - v

(***************************************************************************)
(* The inputs of an optimize call: len(years), len(vehicle_types), the     *)
(* target, the rate bound, enable_constraints and, per vehicle type j,     *)
(* weight[j] = emission factor times miles (the same in every year);       *)
(* weight 0 stands for a vehicle type that has no entry in                 *)
(* emissions_factors (or no mileage), whose term the sum skips.  A vehicle *)
(* type with data has weight j + 1.  init_level is the adoption every cell *)
(* of fuel_mix declares.  The decision vector has at most MaxCells cells.  *)
(***************************************************************************)
WeightChoices(nv) ==
    { [j \in 0..(nv - 1) |-> IF j \in has THEN j + 1 ELSE 0] :
        has \in SUBSET (0..(nv - 1)) }

Shapes ==
    {s \in (0..MaxYears) \X (0..MaxVehicleTypes) : s[1] * s[2] <= MaxCells}

OptInputs ==
    UNION { [ n_years : {s[1]}, n_vehicle_types : {s[2]},
              target_reduction : TargetChoices,
              max_annual_change : ChangeChoices,
              enable_constraints : BOOLEAN,
              weight : WeightChoices(s[2]),
              init_level : {1} ] : s \in Shapes }

\* create_initial_state: one cell per (year, vehicle type)
create_initial_state(d) ==
    [k \in 1..(d.n_years * d.n_vehicle_types) |-> d.init_level]

\* does the (year, vehicle type) cell contribute a term to the emissions sum
HasTerm(d, j) == d.weight[j] > 0

\* does the emissions sum add any term at all (otherwise it stays the
\* Python float 0.0 it was initialised with)
AnyTerm(d) ==
    d.n_years > 0 /\ \E j \in 0..(d.n_vehicle_types - 1) : HasTerm(d, j)

\* calculate_total_emissions(adoption_rates, ...)
calculate_total_emissions(x, d) ==
    LET nv == d.n_vehicle_types
        term == [k \in 1..(d.n_years * nv) |->
                    LET j == (k - 1) % nv
                    IN  IF HasTerm(d, j) THEN PyGet(x, k - 1) * d.weight[j]
                        ELSE 0]
    IN  SumTo(term, d.n_years * nv)

\* emissions of one year (the inner loops of calculate_detailed_results)
YearEmissions(x, d, i) ==
    LET nv == d.n_vehicle_types
        term == [jj \in 1..nv |->
                    IF HasTerm(d, jj - 1)
                    THEN PyGet(x, i * nv + (jj - 1)) * d.weight[jj - 1]
                    ELSE 0]
    IN  SumTo(term, nv)

(***************************************************************************)
(* The constraints list.  A constraint is a closure; to the solver it is a *)
(* function of x that must be >= 0.  A rate constraint keeps the two raw   *)
(* Python indices its lambda reads, exactly as the code computes them.     *)
(***************************************************************************)
\* constraints[0]: target_emissions - calculate_total_emissions(x) >= 0,
\* with target_emissions = initial_emissions * (1 - target_reduction)
TargetConstraint(d, x0) ==
    [kind |-> "target", hi |-> 0, lo |-> 0,
     bound |-> calculate_total_emissions(x0, d) * (100 - d.target_reduction)]

\* the two closures appended for loop indices (i, j)
MaxIncrease(d, i, j) ==
    [kind |-> "max_increase",
     hi |-> i * d.n_vehicle_types + j,
     lo |-> (i - 1) * d.n_vehicle_types + j,
     bound |-> d.max_annual_change]

MaxDecrease(d, i, j) ==
    [kind |-> "max_decrease",
     hi |-> i * d.n_vehicle_types + j,
     lo |-> (i - 1) * d.n_vehicle_types + j,
     bound |-> d.max_annual_change]

\* for i in range(n_years - 1): for j in range(n_vehicle_types): two appends
AnnualChangeConstraints(d) ==
    LET nv == d.n_vehicle_types
        n  == 2 * (d.n_years - 1) * nv
    IN  [k \in 1..n |->
            LET p == (k - 1) \div 2
                i == p \div nv
                j == p % nv
            IN  IF (k - 1) % 2 = 0 THEN MaxIncrease(d, i, j)
                ELSE MaxDecrease(d, i, j)]

BuildConstraints(d, x0) ==
    <<TargetConstraint(d, x0)>> \o
    (IF d.enable_constraints THEN AnnualChangeConstraints(d) ELSE <<>>)

\* the value of a constraint closure at x (the target one scaled by 100)
ConstraintFun(c, x, d) ==
    CASE c.kind = "target" ->
            c.bound - 100 * calculate_total_emissions(x, d)
      [] c.kind = "max_increase" ->
            c.bound - (PyGet(x, c.hi) - PyGet(x, c.lo))
      [] c.kind = "max_decrease" ->
            c.bound - (PyGet(x, c.lo) - PyGet(x, c.hi))

Feasible(x, cons, d) ==
    \A k \in 1..Len(cons) : ConstraintFun(cons[k], x, d) >= 0

(***************************************************************************)
(* scipy.optimize.minimize(objective, x0, method='SLSQP', bounds=Bounds(0, *)
(* 1), constraints=cons).  The solver is outside the repository; what the  *)
(* code relies on is its contract: a result with success=True is a point   *)
(* inside the box that satisfies every constraint it was given, and the    *)
(* solver may also report failure, leaving its last iterate in x.  The     *)
(* last iterate of a failed solve is taken from the initial guess and the  *)
(* lower corner of the box.                                                *)
(***************************************************************************)
Box(len) == [1..len -> Levels]

FailureIterates(x0) ==
    {x0, [k \in 1..Len(x0) |-> 0]}

minimize(x0, cons, d) ==
    { [success |-> TRUE, message |-> "Optimization terminated successfully",
       x |-> x] : x \in {g \in Box(Len(x0)) : Feasible(g, cons, d)} }
    \cup
    { [success |-> FALSE, message |-> "solver did not converge",
       x |-> x] : x \in FailureIterates(x0) }

\* a retry that is made whatever the primary solve reported
AlwaysFallback(result) == TRUE

\* line 86: if not result.success
NeedsFallback(result) == ~result.success

\* a relaxation that drops the target constraint with the others
RelaxedDropsAll(cons) == <<>>

\* line 88: relaxed_constraints = [constraints[0]]
RelaxedConstraints(cons) == <<cons[1]>>

\* a handler that catches ValueError only
CaughtValueErrorOnly(exc) == exc = "ValueError"

\* except Exception as e: which exceptions the handler catches
Caught(exc) == exc \in {"ValueError", "ZeroDivisionError"}

\* result.x.reshape(n_years, n_vehicle_types).tolist()
Reshape(x, d) ==
    [i \in 1..d.n_years |->
        [j \in 1..d.n_vehicle_types |->
            x[(i - 1) * d.n_vehicle_types + j]]]

NoSolve == [success |-> FALSE, message |-> "", x |-> <<>>]
NoReturn == [nothing |-> TRUE]

(***************************************************************************)
(* optimize_transport_pathway.  The call is followed through its solver    *)
(* invocations: the entry (parameter extraction, input validation,         *)
(* initial state, constraints), the primary solve, the fallback solve and  *)
(* the post-processing that builds the returned dictionary.                *)
(***************************************************************************)
\* the except clause: a caught exception becomes the failure dictionary,
\* any other leaves the function
FailureReturn(msg) ==
    [success |-> FALSE, message |-> <<"Optimization failed", msg>>,
     error |-> msg]

ExceptOutcome(exc) == IF Caught(exc) THEN "returned" ELSE "raised"

ExceptReturn(exc, msg) == IF Caught(exc) THEN FailureReturn(msg) ELSE NoReturn

\* the "summary" block of calculate_detailed_results; only evaluated when
\* initial_emissions is not the float 0.0
Summary(x, d, initial_emissions) ==
    LET final_emissions == YearEmissions(x, d, d.n_years - 1)
    IN  [initial_emissions |-> initial_emissions,
         final_emissions |-> final_emissions,
         \* total_reduction_percent is reduction_num / initial_emissions
         reduction_num |-> (initial_emissions - final_emissions) * 100,
         years_analyzed |-> d.n_years,
         vehicle_types_analyzed |-> d.n_vehicle_types,
         \* total_reduction >= 50
         target_achieved |->
             (initial_emissions - final_emissions) * 100
                 >= 50 * initial_emissions]

SuccessReturn(result, d, x0) ==
    [success |-> result.success,
     message |-> result.message,
     optimized_adoption |-> Reshape(result.x, d),
     vehicle_types |-> d.n_vehicle_types,
     years |-> d.n_years,
     results |-> [summary |->
                    Summary(result.x, d, calculate_total_emissions(x0, d))],
     optimization_info |->
         [final_objective |-> calculate_total_emissions(result.x, d)]]

\* lines 11-74: entry, validation, initial state and constraints
OptCall(d) ==
    /\ opt_pc = "idle"
    /\ opt_in' = d
    /\ opt_solves' = <<>>
    /\ opt_result' = NoSolve
    /\ IF d.n_years < 2 \/ d.n_vehicle_types = 0
       THEN /\ opt_exc' = "ValueError"
            /\ opt_outcome' = ExceptOutcome("ValueError")
            /\ opt_ret' = ExceptReturn("ValueError",
                            IF d.n_years < 2
                            THEN "At least 2 years must be specified"
                            ELSE "At least one vehicle type must be specified")
            /\ opt_state' = <<>>
            /\ opt_constraints' = <<>>
            /\ opt_pc' = "done"
       ELSE /\ opt_exc' = "none"
            /\ opt_outcome' = "none"
            /\ opt_ret' = NoReturn
            /\ opt_state' = create_initial_state(d)
            /\ opt_constraints' = BuildConstraints(d, create_initial_state(d))
            /\ opt_pc' = "primary"
    /\ UNCHANGED <<calcVars, fnVars>>

SolveRecord(x0, cons, r) ==
    [x0 |-> x0, constraints |-> cons, bounds |-> <<0, MaxLevel>>,
     success |-> r.success, x |-> r.x]

\* lines 98-126: reshape, calculate_detailed_results, the returned dictionary.
\* With no emissions term at all, initial_emissions and year_emissions are
\* both the Python float 0.0 and line 234 divides 0.0 by 0.0.
ProcessExc(d) == IF ~AnyTerm(d) THEN "ZeroDivisionError" ELSE "none"

ProcessOutcome(d) ==
    IF ProcessExc(d) = "none" THEN "returned"
    ELSE ExceptOutcome(ProcessExc(d))

ProcessReturn(result, d, x0) ==
    IF ProcessExc(d) = "none" THEN SuccessReturn(result, d, x0)
    ELSE ExceptReturn(ProcessExc(d), "float division by zero")

\* lines 77-86: the primary solve and the test of its success; when no
\* fallback is needed the call goes on to process and return the result
OptPrimarySolve ==
    /\ opt_pc = "primary"
    /\ \E r \in minimize(opt_state, opt_constraints, opt_in) :
          /\ opt_result' = r
          /\ opt_solves' = Append(opt_solves,
                                  SolveRecord(opt_state, opt_constraints, r))
          /\ IF NeedsFallback(r)
             THEN /\ opt_pc' = "fallback"
                  /\ UNCHANGED <<opt_exc, opt_outcome, opt_ret>>
             ELSE /\ opt_pc' = "done"
                  /\ opt_exc' = ProcessExc(opt_in)
                  /\ opt_outcome' = ProcessOutcome(opt_in)
                  /\ opt_ret' = ProcessReturn(r, opt_in, opt_state)
    /\ UNCHANGED <<opt_in, opt_state, opt_constraints>>
    /\ UNCHANGED <<calcVars, fnVars>>

\* lines 87-126: the retry with relaxed constraints, whose result is
\* processed and returned whether or not it succeeded
OptFallbackSolve ==
    /\ opt_pc = "fallback"
    /\ \E r \in minimize(opt_state, RelaxedConstraints(opt_constraints),
                         opt_in) :
          /\ opt_result' = r
          /\ opt_solves' = Append(opt_solves,
                SolveRecord(opt_state, RelaxedConstraints(opt_constraints), r))
          /\ opt_ret' = ProcessReturn(r, opt_in, opt_state)
    /\ opt_pc' = "done"
    /\ opt_exc' = ProcessExc(opt_in)
    /\ opt_outcome' = ProcessOutcome(opt_in)
    /\ UNCHANGED <<opt_in, opt_state, opt_constraints>>
    /\ UNCHANGED <<calcVars, fnVars>>

(***************************************************************************)
(* AdvancedCalculationEngine.calculate_scenario and the process-wide       *)
(* cache.  A scenario_data map is a record of its values together with the *)
(* set `present` of the keys the map holds.  A year is a record: `int`     *)
(* tells whether the value is a Python int, v is its value.  Percentages   *)
(* stand for target_reduction (50 is 0.5).                                 *)
(***************************************************************************)
ScenarioIds == {"s1", "s2"}
UnknownId == "s3"

Yr(v) == [int |-> TRUE, v |-> v]
NotInt(v) == [int |-> FALSE, v |-> v]

AllKeys == {"scenario_id", "years", "vehicle_types", "target_reduction",
            "constraints", "adoption_rates"}

ValidScenarios ==
    [ present : {AllKeys},
      scenario_id : ScenarioIds,
      years : {<<Yr(2025), Yr(2030)>>},
      vehicle_types : {<<"Passenger Cars">>, <<"Passenger Cars", "Buses">>},
      target_reduction : {50},
      constraints : {{}} ]

\* one scenario broken in each way validation is meant to reject
BaseScenario ==
    [ present |-> AllKeys, scenario_id |-> "s1",
      years |-> <<Yr(2025), Yr(2030)>>,
      vehicle_types |-> <<"Passenger Cars">>,
      target_reduction |-> 50, constraints |-> {} ]

InvalidScenarios ==
    { [BaseScenario EXCEPT !.present = AllKeys \ {k}] :
        k \in {"years", "vehicle_types", "target_reduction"} }
    \cup { [BaseScenario EXCEPT !.years = ys] :
            ys \in { <<>>, <<Yr(2025)>>, <<Yr(2025), Yr(2020)>>,
                     <<Yr(2025), NotInt(2030)>> } }
    \cup { [BaseScenario EXCEPT !.vehicle_types = <<>>] }
    \cup { [BaseScenario EXCEPT !.target_reduction = t] : t \in {0 - 10, 110} }
    \cup { [BaseScenario EXCEPT !.years = <<Yr(2025)>>,
                                !.vehicle_types = <<>>,
                                !.target_reduction = 110] }

ScenarioInputs == ValidScenarios \cup InvalidScenarios

\* the five evaluators ConstraintManager registers
constraint_types ==
    {"technology_readiness", "market_penetration", "infrastructure_capacity",
     "cost_constraints", "policy_constraints"}

\* ConstraintManager.validate_constraints
validate_constraints(constraints) ==
    LET errors == <<>>
        warnings == {<<"Unknown constraint type", c>> :
                        c \in constraints \ constraint_types}
    IN  [valid |-> Len(errors) = 0, errors |-> errors, warnings |-> warnings]

\* a validation that accepts any target
TargetUnchecked(target) == TRUE

\* line 197: 0 <= target <= 1
TargetInRange(target) == 0 <= target /\ target <= 100

\* line 187: all(isinstance(y, int) and y > 2020 for y in years)
YearsAreIntsAfter2020(years) ==
    \A k \in 1..Len(years) : years[k].int /\ years[k].v > 2020

\* _validate_scenario_data
validate_scenario_data(data) ==
    LET required == <<"years", "vehicle_types", "target_reduction">>
        missing == SelectSeq(required, LAMBDA f : f \notin data.present)
    IN  IF missing # <<>>
        THEN [valid |-> FALSE,
              errors |-> [k \in 1..Len(missing) |->
                            <<"Missing required field", missing[k]>>],
              warnings |-> {}]
        ELSE
        LET e1 == IF Len(data.years) < 2
                  THEN <<"At least 2 years must be specified">>
                  ELSE IF ~YearsAreIntsAfter2020(data.years)
                  THEN <<"Years must be integers greater than 2020">>
                  ELSE <<>>
            e2 == IF data.vehicle_types = <<>>
                  THEN <<"At least one vehicle type must be specified">>
                  ELSE <<>>
            e3 == IF ~TargetInRange(data.target_reduction)
                  THEN <<"Target reduction must be between 0 and 1">>
                  ELSE <<>>
            constraints == IF "constraints" \in data.present
                           THEN data.constraints ELSE {}
            cv == validate_constraints(constraints)
            \* lines 202-206: extended only when the constraints are invalid
            e4 == IF constraints # {} /\ ~cv.valid THEN cv.errors ELSE <<>>
            w4 == IF constraints # {} /\ ~cv.valid THEN cv.warnings ELSE {}
            errors == e1 \o e2 \o e3 \o e4
        IN  [valid |-> Len(errors) = 0,
             errors |-> errors,
             warnings |-> w4,
             years |-> data.years,
             vehicle_types |-> data.vehicle_types,
             target_reduction |-> data.target_reduction,
             constraints |-> constraints]

Range(seq) == {seq[k] : k \in 1..Len(seq)}

\* ConstraintManager.check_vehicle_constraints: every registered evaluator
\* reports compliance
check_vehicle_constraints(vehicle_type, year, constraints) ==
    [compliant |-> TRUE, violations |-> <<>>, warnings |-> <<>>]

\* _calculate_year: one entry of vehicle_calculations per vehicle type
calculate_year(year, vehicle_types, constraints) ==
    [year |-> year,
     vehicle_calculations |->
        [vt \in Range(vehicle_types) |->
            [vehicle_type |-> vt, year |-> year,
             constraint_compliance |->
                check_vehicle_constraints(vt, year, constraints)]],
     constraint_status |->
        [compliant |-> TRUE, violations |-> <<>>, warnings |-> <<>>]]

\* the per_year_results dictionary after the loop over years
PerYearResults(v) ==
    [y \in {v.years[k].v : k \in 1..Len(v.years)} |->
        calculate_year(y, v.vehicle_types, v.constraints)]

\* the lists msgs[1], ..., msgs[n] appended to one list, in that order
RECURSIVE Collect(_, _)
Collect(n, msgs) ==
    IF n = 0 THEN <<>> ELSE Collect(n - 1, msgs) \o msgs[n]

\* the keys of a dictionary filled in the order of seq: each element once,
\* at its first position
RECURSIVE KeysInOrder(_)
KeysInOrder(seq) ==
    IF seq = <<>> THEN <<>>
    ELSE LET front == KeysInOrder(SubSeq(seq, 1, Len(seq) - 1))
             last == seq[Len(seq)]
         IN  IF last \in Range(front) THEN front ELSE Append(front, last)

\* an analysis that goes by the violation lists
CellHasViolations(cell) == cell.constraint_compliance.violations # <<>>

\* line 697: not vehicle_data['constraint_compliance']['compliant']
CellFlagged(cell) == ~cell.constraint_compliance.compliant

\* the entries one year appends, its vehicle types in dictionary order
YearViolations(year, vehicle_calculations, vehicle_types) ==
    LET flagged == SelectSeq(vehicle_types,
                     LAMBDA vt : /\ vt \in DOMAIN vehicle_calculations
                                 /\ CellFlagged(vehicle_calculations[vt]))
    IN  [k \in 1..Len(flagged) |->
            [year |-> year, vehicle_type |-> flagged[k],
             violations |-> vehicle_calculations[flagged[k]]
                               .constraint_compliance.violations]]

\* the constraint_analysis of a results dictionary taken before line 145:
\* the empty dictionary it is initialised with
AnalysisNotYetRun(per_year, years, vehicle_types) == <<>>

\* ConstraintManager.analyze_constraints: per_year_results is walked in the
\* order `years` filled it, each vehicle_calculations in the order
\* `vehicle_types` filled it
analyze_constraints(per_year, years, vehicle_types) ==
    LET violations ==
            Collect(Len(years),
                    [k \in 1..Len(years) |->
                        YearViolations(years[k],
                                       per_year[years[k]].vehicle_calculations,
                                       vehicle_types)])
    IN  [overall_compliance |-> violations = <<>>,
         constraint_violations |-> violations,
         critical_violations |-> <<>>,
         recommendations |-> <<>>]

\* the results dictionary of a calculation that ran to its end
ScenarioResults(data, v, now) ==
    LET per_year == PerYearResults(v)
    IN  [scenario_id |-> data.scenario_id,
         calculation_timestamp |-> now,
         years |-> v.years,
         vehicle_types |-> v.vehicle_types,
         target_reduction |-> v.target_reduction,
         per_year_results |-> per_year,
         aggregated_results |->
            [scenario_summary |->
                [years_analyzed |-> Cardinality(DOMAIN per_year),
                 vehicle_types_analyzed |-> Len(v.vehicle_types)]],
         constraint_analysis |->
            analyze_constraints(per_year,
                KeysInOrder([k \in 1..Len(v.years) |-> v.years[k].v]),
                KeysInOrder(v.vehicle_types)),
         performance_metrics |->
            [calculation_time |-> now,
             total_years_processed |-> Cardinality(DOMAIN per_year)],
         \* a calculation only runs to its end with the flag off (see
         \* RealTimeAggregationRaises), so the list stays empty
         real_time_updates |-> <<>>]

\* line 132 hands aggregate_by_year the whole year_results dictionary, whose
\* first item is ('year', year): vehicle_data['calculations'] then indexes an
\* int and raises TypeError.  Validation guarantees at least two years, so
\* the loop body runs and, with the flag on, raises in its first iteration.
RealTimeAggregationRaises(flag, v) == flag /\ Len(v.years) >= 1

\* the stages of a calculation that passed validation, in program order
FullStages(v) ==
    <<"validate">> \o [k \in 1..Len(v.years) |-> "year"]
    \o <<"aggregate", "constraints", "metrics", "cache">>

\* the stages run when the first real-time aggregation raises
RaisedStages == <<"validate", "year">>

\* a cache that holds the latest calculation only
CacheKeepsLatestOnly(cache, results) ==
    <<[key |-> <<results.scenario_id, results.calculation_timestamp>>,
       result |-> results]>>

\* _cache_results: the dictionary keeps a key's first position
cache_results(cache, results) ==
    LET cache_key == <<results.scenario_id, results.calculation_timestamp>>
        at == {k \in 1..Len(cache) : cache[k].key = cache_key}
    IN  IF at # {}
        THEN [k \in 1..Len(cache) |->
                IF k \in at THEN [key |-> cache_key, result |-> results]
                ELSE cache[k]]
        ELSE Append(cache, [key |-> cache_key, result |-> results])

None == [none |-> TRUE]

\* get_cached_result: the first entry, in insertion order, whose result
\* carries the scenario_id
get_cached_result(cache, scenario_id) ==
    LET hits == {k \in 1..Len(cache) :
                    cache[k].result.scenario_id = scenario_id}
    IN  IF hits = {} THEN None
        ELSE cache[CHOOSE k \in hits : \A m \in hits : k <= m].result

\* lines 94-99, 155-159 and 161-167: what calculate_scenario returns
CalcReturn(data, v, now, flag) ==
    IF ~v.valid
    THEN [success |-> FALSE, errors |-> v.errors,
          message |-> "Scenario validation failed"]
    ELSE IF RealTimeAggregationRaises(flag, v)
    THEN [success |-> FALSE, error |-> "'int' object is not subscriptable",
          message |-> "Calculation failed"]
    ELSE [success |-> TRUE, results |-> ScenarioResults(data, v, now),
          message |-> "Calculation completed successfully"]

\* calculate_scenario on an engine with cache_enabled
CalculateScenario(data) ==
    /\ (validate_scenario_data(data).valid /\ ~real_time_updates)
          => Len(history) < MaxCalcs
    /\ LET v == validate_scenario_data(data)
           ret == CalcReturn(data, v, clock, real_time_updates)
       IN  /\ calc_in' = data
           /\ resp' = [op |-> "calculate", ret |-> ret]
           /\ IF ~v.valid
              THEN /\ calc_stages' = <<"validate">>
                   /\ UNCHANGED <<calculation_cache, history>>
              ELSE IF RealTimeAggregationRaises(real_time_updates, v)
              THEN /\ calc_stages' = RaisedStages
                   /\ UNCHANGED <<calculation_cache, history>>
              ELSE /\ calc_stages' = FullStages(v)
                   /\ calculation_cache' =
                        cache_results(calculation_cache, ret.results)
                   /\ history' = Append(history, ret.results)
    /\ UNCHANGED <<clock, real_time_updates>>
    /\ UNCHANGED <<optVars, fnVars>>

\* the except clause of get_advanced_scenario_results: whatever was raised
\* inside the try block, the HTTPException of line 90 included, is
\* re-raised with status 500
ExceptStatus(raised) == 500

\* filter_results_by_level at the default level, AggregationLevel.TOTAL
filter_results_by_level(results) ==
    [aggregated_results |-> results.aggregated_results]

\* GET /advanced/scenario/{scenario_id}
GetAdvancedScenarioResults(scenario_id) ==
    /\ LET cached_result == get_cached_result(calculation_cache, scenario_id)
       IN  resp' =
             IF cached_result # None
             THEN [op |-> "get", scenario_id |-> scenario_id,
                   cached |-> cached_result, status |-> 200,
                   body |-> filter_results_by_level(cached_result)]
             ELSE \* get_scenario_from_database returns None: line 90 raises
                  [op |-> "get", scenario_id |-> scenario_id,
                   cached |-> cached_result, status |-> ExceptStatus(404),
                   body |-> None]
    /\ UNCHANGED <<calculation_cache, real_time_updates, clock, history,
                   calc_in, calc_stages>>
    /\ UNCHANGED <<optVars, fnVars>>

\* time passes between two requests
Tick ==
    /\ clock < MaxClock
    /\ clock' = clock + 1
    /\ UNCHANGED <<calculation_cache, real_time_updates, history, calc_in,
                   calc_stages, resp>>
    /\ UNCHANGED <<optVars, fnVars>>

\* AdvancedCalculationEngine.__init__: an empty cache, and the flag read from
\* the config (advanced_endpoints.py constructs its engine with the flag on)
CalcInit ==
    /\ calculation_cache = <<>>
    /\ real_time_updates \in BOOLEAN
    /\ clock = 0
    /\ history = <<>>
    /\ calc_in = BaseScenario
    /\ calc_stages = <<>>
    /\ resp = [op |-> "none"]

OptInit ==
    /\ opt_pc = "idle"
    /\ opt_in = [n_years |-> 0, n_vehicle_types |-> 0, target_reduction |-> 0,
                 max_annual_change |-> 1, enable_constraints |-> TRUE,
                 weight |-> <<>>, init_level |-> 1]
    /\ opt_state = <<>>
    /\ opt_constraints = <<>>
    /\ opt_solves = <<>>
    /\ opt_result = NoSolve
    /\ opt_exc = "none"
    /\ opt_outcome = "none"
    /\ opt_ret = NoReturn

(***************************************************************************)
(* AggregationEngine.  calculate_scenario fills per_year_results, a         *)
(* dictionary keyed by year, in its loop over the years list: a year that   *)
(* the list repeats is calculated again and overwrites its entry.  Each     *)
(* entry holds vehicle_calculations, keyed by vehicle type, and the         *)
(* aggregated_metrics that aggregate_by_year computes from them.  A vehicle *)
(* calculation is kept as its three totals (emissions, cost, energy).       *)
(***************************************************************************)
RECURSIVE SumOver(_, _)
SumOver(f, S) ==
    IF S = {} THEN 0
    ELSE LET x == CHOOSE x \in S : TRUE
         IN  f[x] + SumOver(f, S \ {x})

AggVehicleTypes == {"Passenger Cars", "Buses"}
AggYears == {2025, 2030}

\* vehicle_types lists, one of them repeating a type
VehicleTypeLists ==
    { <<"Passenger Cars">>, <<"Passenger Cars", "Buses">>,
      <<"Buses", "Passenger Cars">>, <<"Buses", "Buses">> }

\* the totals of one vehicle calculation
CalculationChoices ==
    { [emissions |-> 1, cost |-> 2, energy |-> 1],
      [emissions |-> 2, cost |-> 5, energy |-> 3] }

\* vehicle_calculations of one year: the types of the list, or some of them
VehicleCalculationChoices(vehicle_types) ==
    UNION { [present -> CalculationChoices] :
              present \in SUBSET {vehicle_types[k] :
                                    k \in 1..Len(vehicle_types)} }

\* what the loop over the years list is given to store, position by position
AggInputs ==
    UNION { UNION { [ years : [1..n -> AggYears],
                      vehicle_types : {vts},
                      calcs : [1..n -> VehicleCalculationChoices(vts)] ] :
                    vts \in VehicleTypeLists } : n \in 2..MaxAggYears }

\* aggregate_by_year(year, year_data), year_data = vehicle_calculations
aggregate_by_year(year, year_data) ==
    [year |-> year,
     total_emissions |->
        SumOver([vt \in DOMAIN year_data |-> year_data[vt].emissions],
                DOMAIN year_data),
     total_cost |->
        SumOver([vt \in DOMAIN year_data |-> year_data[vt].cost],
                DOMAIN year_data),
     total_energy |->
        SumOver([vt \in DOMAIN year_data |-> year_data[vt].energy],
                DOMAIN year_data),
     emissions_by_vehicle_type |->
        [vt \in DOMAIN year_data |-> year_data[vt].emissions],
     costs_by_vehicle_type |->
        [vt \in DOMAIN year_data |-> year_data[vt].cost],
     energy_by_vehicle_type |->
        [vt \in DOMAIN year_data |-> year_data[vt].energy]]

\* results['per_year_results'][year] = year_results, for year in years:
\* the last position of a year is the one the dictionary keeps
per_year_results(d) ==
    [y \in {d.years[k] : k \in 1..Len(d.years)} |->
        LET last == CHOOSE k \in 1..Len(d.years) :
                        /\ d.years[k] = y
                        /\ \A m \in 1..Len(d.years) : d.years[m] = y => m <= k
        IN  [year |-> y,
             vehicle_calculations |-> d.calcs[last],
             aggregated_metrics |-> aggregate_by_year(y, d.calcs[last])]]

\* a summary that adds one term per position of the years list
SummaryTotalPerListPosition(d, field) ==
    SumOver([k \in 1..Len(d.years) |->
                per_year_results(d)[d.years[k]].aggregated_metrics[field]],
            1..Len(d.years))

\* sum(year_data['aggregated_metrics'][field]
\*     for year_data in results['per_year_results'].values())
SummaryTotal(d, field) ==
    SumOver([y \in DOMAIN per_year_results(d) |->
                per_year_results(d)[y].aggregated_metrics[field]],
            DOMAIN per_year_results(d))

\* a vehicle total that indexes every year's calculations by the type and
\* takes a missing type as the calculation of another type
VehicleTotalUnguarded(d, vehicle_type, field) ==
    SumOver([y \in DOMAIN per_year_results(d) |->
                LET vc == per_year_results(d)[y].vehicle_calculations
                IN  IF vehicle_type \in DOMAIN vc THEN vc[vehicle_type][field]
                    ELSE 1],
            DOMAIN per_year_results(d))

\* lines 835-840: the total of one vehicle type over the years that hold it
VehicleTotal(d, vehicle_type, field) ==
    SumOver([y \in DOMAIN per_year_results(d) |->
                LET vc == per_year_results(d)[y].vehicle_calculations
                IN  IF vehicle_type \in DOMAIN vc THEN vc[vehicle_type][field]
                    ELSE 0],
            DOMAIN per_year_results(d))

\* perform_comprehensive_aggregation(results)
perform_comprehensive_aggregation(d) ==
    [scenario_summary |->
        [total_emissions |-> SummaryTotal(d, "total_emissions"),
         total_cost |-> SummaryTotal(d, "total_cost"),
         years_analyzed |-> Cardinality(DOMAIN per_year_results(d)),
         vehicle_types_analyzed |-> Len(d.vehicle_types)],
     yearly_totals |->
        [y \in DOMAIN per_year_results(d) |->
            per_year_results(d)[y].aggregated_metrics],
     vehicle_type_totals |->
        [vt \in {d.vehicle_types[k] : k \in 1..Len(d.vehicle_types)} |->
            [total_emissions |-> VehicleTotal(d, vt, "emissions"),
             total_cost |-> VehicleTotal(d, vt, "cost"),
             total_energy |-> VehicleTotal(d, vt, "energy")]]]

\* one call of the aggregation on the results of a calculation; the engine
\* keeps nothing between calls, so one call per behaviour shows them all
PerformComprehensiveAggregation ==
    /\ agg.op = "none"
    /\ \E d \in AggInputs :
          agg' = [op |-> "aggregate", results |-> d,
                  out |-> perform_comprehensive_aggregation(d)]
    /\ UNCHANGED <<optVars, calcVars, val, veh, energy, sval, analysis, db, api, tasks, loop_running>>

(***************************************************************************)
(* validate_scenario_parameters (app/services/scenario.py).  A parameters   *)
(* map is a record of its values with the set `present` of its keys.        *)
(* target_emissions_reduction and max_annual_change are numbers in          *)
(* hundredths (80 is 0.8) or not numbers at all.  A year is what int(year)  *)
(* makes of it: int tells whether it is a Python int, conv whether int()    *)
(* accepts it, v the value int() returns.                                   *)
(***************************************************************************)
YearInt(v) == [int |-> TRUE, conv |-> TRUE, v |-> v]
\* the float v + 0.5, which int() truncates to v
YearFloat(v) == [int |-> FALSE, conv |-> TRUE, v |-> v]
\* a text int() rejects with ValueError
YearText == [int |-> FALSE, conv |-> FALSE, v |-> 0]

YearItems ==
    {YearInt(2025), YearInt(2030), YearInt(2045), YearFloat(2030), YearText}

\* the years 2020, 2021, ... as a list of n ints
LongYears(n) == [k \in 1..n |-> YearInt(2019 + k)]

PyList(items) == [is_list |-> TRUE, sized |-> TRUE, items |-> items]
\* a value that is no list but has a length and iterates (a tuple, a str)
NotList(items) == [is_list |-> FALSE, sized |-> TRUE, items |-> items]
\* a value that is no list and has no length (None, a number)
NoLength == [is_list |-> FALSE, sized |-> FALSE, items |-> <<>>]

YearsChoices ==
    { PyList(ys) : ys \in UNION { [1..n -> YearItems] : n \in 1..MaxValYears } }
    \cup { PyList(LongYears(10)), PyList(LongYears(11)),
           NotList(<<YearInt(2025), YearInt(2030)>>), NoLength }

Num(v) == [num |-> TRUE, v |-> v]
NotNum == [num |-> FALSE, v |-> 0]

ValTargetChoices == {Num(0 - 10), Num(5), Num(50), Num(90), Num(110), NotNum}
ValChangeChoices == {Num(3), Num(6), Num(10), Num(25), Num(35), NotNum}

valid_categories ==
    {"Passenger Cars", "Buses", "Heavy Goods Vehicles (HGVs)",
     "Vans / Light Goods Vehicles (LGVs)", "Motorcycles"}

ElevenVehicleTypes ==
    [k \in 1..11 |-> IF k % 2 = 0 THEN "Buses" ELSE "Passenger Cars"]

VehicleTypesChoices ==
    { PyList(<<>>), PyList(<<"Passenger Cars">>),
      PyList(<<"Passenger Cars", "Buses">>), PyList(<<"Hovercraft">>),
      PyList(<<"Buses", "Hovercraft">>), PyList(ElevenVehicleTypes),
      NotList(<<"B", "u", "s", "e", "s">>) }

\* emissions_factors, usage_patterns and enable_constraints, by the branch
\* of their checks they take: nothing to report, an error, a warning
OtherFieldsChoices ==
    { [emissions_factors |-> "empty", usage_patterns |-> "empty",
       enable_constraints |-> "bool"],
      [emissions_factors |-> "not_dict", usage_patterns |-> "empty",
       enable_constraints |-> "bool"],
      [emissions_factors |-> "missing_lifecycle", usage_patterns |-> "empty",
       enable_constraints |-> "bool"],
      [emissions_factors |-> "empty", usage_patterns |-> "negative_usage",
       enable_constraints |-> "bool"],
      [emissions_factors |-> "empty", usage_patterns |-> "empty",
       enable_constraints |-> "not_bool"] }

required_keys ==
    <<"years", "target_emissions_reduction", "max_annual_change",
      "vehicle_types">>

AllParameterKeys ==
    {required_keys[k] : k \in 1..Len(required_keys)}
    \cup {"emissions_factors", "usage_patterns", "enable_constraints"}

CompleteParameters ==
    { [present |-> AllParameterKeys, years |-> ys,
       target_emissions_reduction |-> t, max_annual_change |-> mc,
       vehicle_types |-> vts, other |-> o] :
        ys \in YearsChoices, t \in ValTargetChoices, mc \in ValChangeChoices,
        vts \in VehicleTypesChoices, o \in OtherFieldsChoices }

BaseParameters ==
    [present |-> AllParameterKeys,
     years |-> PyList(<<YearInt(2025), YearInt(2030)>>),
     target_emissions_reduction |-> Num(50), max_annual_change |-> Num(10),
     vehicle_types |-> PyList(<<"Passenger Cars">>),
     other |-> [emissions_factors |-> "empty", usage_patterns |-> "empty",
                enable_constraints |-> "bool"]]

ValInputs ==
    CompleteParameters
    \cup { [BaseParameters EXCEPT !.present = AllParameterKeys \ gone] :
             gone \in {{"years"}, {"vehicle_types"},
                       {"years", "max_annual_change"}} }

Get(parameters, key, default) ==
    IF key \in parameters.present THEN parameters[key] ELSE default

MissingKeys(parameters) ==
    SelectSeq(required_keys, LAMBDA key : key \notin parameters.present)

\* years_int != sorted(years_int)
NotAscending(years_int) ==
    \E i \in 1..(Len(years_int) - 1) : years_int[i] > years_int[i + 1]

\* what the years block appends to errors and warnings (lines 28-58)
YearsCheck(years) ==
    LET n == Len(years.items)
        years_int == [i \in 1..n |-> years.items[i].v]
        gap(i) == years_int[i + 1] - years_int[i]
    IN  IF ~years.is_list
          THEN [errors |-> <<"Years must be a list">>, warnings |-> <<>>]
        ELSE IF n < 2
          THEN [errors |-> <<"At least 2 years must be specified">>,
                warnings |-> <<>>]
        ELSE IF n > 10
          THEN [errors |-> <<"Maximum 10 years allowed">>, warnings |-> <<>>]
        ELSE IF \E i \in 1..n : ~years.items[i].conv
          THEN [errors |-> <<"Years must be valid integers">>,
                warnings |-> <<>>]
        ELSE [errors |->
                (IF NotAscending(years_int)
                   THEN <<"Years must be in ascending order">> ELSE <<>>)
                \o Collect(n - 1,
                      [i \in 1..(n - 1) |->
                         IF gap(i) < 1
                           THEN <<"Years must have at least 1 year gap">>
                           ELSE <<>>]),
              warnings |->
                Collect(n - 1,
                      [i \in 1..(n - 1) |->
                         IF gap(i) >= 1 /\ gap(i) > 10
                           THEN <<"Large gap between years">> ELSE <<>>])
                \o (IF years_int[1] < 2020
                      THEN <<"Starting year is before 2020">> ELSE <<>>)
                \o (IF years_int[n] > 2060
                      THEN <<"End year is after 2060">> ELSE <<>>)]

\* lines 60-70, in hundredths
TargetCheck(target) ==
    IF ~target.num
      THEN [errors |-> <<"Target emissions reduction must be a number">>,
            warnings |-> <<>>, suggestions |-> <<>>]
    ELSE IF ~(0 <= target.v /\ target.v <= 100)
      THEN [errors |-> <<"Target emissions reduction must be between 0 and 1">>,
            warnings |-> <<>>, suggestions |-> <<>>]
    ELSE IF target.v > 80
      THEN [errors |-> <<>>, warnings |-> <<"Very high target">>,
            suggestions |-> <<"Consider a more realistic target">>]
    ELSE IF target.v < 10
      THEN [errors |-> <<>>, warnings |-> <<"Very low target">>,
            suggestions |-> <<>>]
    ELSE [errors |-> <<>>, warnings |-> <<>>, suggestions |-> <<>>]

\* the mutant of MaxChangeCheck that has no range check
MaxChangeCheckNoRange(max_change) ==
    IF ~max_change.num
      THEN [errors |-> <<"Maximum annual change must be a number">>,
            warnings |-> <<>>, suggestions |-> <<>>]
    ELSE IF max_change.v > 20
      THEN [errors |-> <<>>, warnings |-> <<"High annual change rate">>,
            suggestions |-> <<"Consider a lower annual change rate">>]
    ELSE IF max_change.v < 8
      THEN [errors |-> <<>>, warnings |-> <<"Low annual change rate">>,
            suggestions |-> <<>>]
    ELSE [errors |-> <<>>, warnings |-> <<>>, suggestions |-> <<>>]

\* lines 72-82, in hundredths
MaxChangeCheck(max_change) ==
    IF ~max_change.num
      THEN [errors |-> <<"Maximum annual change must be a number">>,
            warnings |-> <<>>, suggestions |-> <<>>]
    ELSE IF ~(5 <= max_change.v /\ max_change.v <= 30)
      THEN [errors |-> <<"Maximum annual change must be between 0.05 and 0.3">>,
            warnings |-> <<>>, suggestions |-> <<>>]
    ELSE IF max_change.v > 20
      THEN [errors |-> <<>>, warnings |-> <<"High annual change rate">>,
            suggestions |-> <<"Consider a lower annual change rate">>]
    ELSE IF max_change.v < 8
      THEN [errors |-> <<>>, warnings |-> <<"Low annual change rate">>,
            suggestions |-> <<>>]
    ELSE [errors |-> <<>>, warnings |-> <<>>, suggestions |-> <<>>]

\* lines 84-101
VehicleTypesCheck(vehicle_types) ==
    LET n == Len(vehicle_types.items)
        unknown == Collect(n,
                     [i \in 1..n |->
                        IF vehicle_types.items[i] \notin valid_categories
                          THEN <<<<"Unknown vehicle type",
                                   vehicle_types.items[i]>>>>
                          ELSE <<>>])
    IN  IF ~vehicle_types.is_list
          THEN [errors |-> <<"Vehicle types must be a list">>,
                warnings |-> unknown, suggestions |-> <<>>]
        ELSE IF n = 0
          THEN [errors |-> <<"At least one vehicle type must be specified">>,
                warnings |-> unknown, suggestions |-> <<>>]
        ELSE IF n > 10
          THEN [errors |-> <<>>,
                warnings |-> <<"Large number of vehicle types">> \o unknown,
                suggestions |-> <<"Consider fewer vehicle types">>]
        ELSE [errors |-> <<>>, warnings |-> unknown, suggestions |-> <<>>]

\* lines 103-152
OtherFieldsCheck(other) ==
    [errors |->
        IF other.emissions_factors = "not_dict"
          THEN <<"Emissions factors must be a dictionary">> ELSE <<>>,
     warnings |->
        (IF other.emissions_factors = "missing_lifecycle"
           THEN <<"Missing lifecycle emissions">> ELSE <<>>)
        \o (IF other.usage_patterns = "negative_usage"
              THEN <<"Invalid usage pattern">> ELSE <<>>)
        \o (IF other.enable_constraints = "not_bool"
              THEN <<"enable_constraints should be a boolean">> ELSE <<>>)]

\* errors and warnings of the field rules, before the suggestions block
FieldErrors(parameters) ==
    YearsCheck(Get(parameters, "years", PyList(<<>>))).errors
    \o TargetCheck(Get(parameters, "target_emissions_reduction", Num(0))).errors
    \o MaxChangeCheck(Get(parameters, "max_annual_change", Num(0))).errors
    \o VehicleTypesCheck(Get(parameters, "vehicle_types", PyList(<<>>))).errors
    \o OtherFieldsCheck(parameters.other).errors

FieldWarnings(parameters) ==
    YearsCheck(Get(parameters, "years", PyList(<<>>))).warnings
    \o TargetCheck(Get(parameters, "target_emissions_reduction", Num(0))).warnings
    \o MaxChangeCheck(Get(parameters, "max_annual_change", Num(0))).warnings
    \o VehicleTypesCheck(Get(parameters, "vehicle_types", PyList(<<>>))).warnings
    \o OtherFieldsCheck(parameters.other).warnings

FieldSuggestions(parameters) ==
    TargetCheck(Get(parameters, "target_emissions_reduction", Num(0))).suggestions
    \o MaxChangeCheck(Get(parameters, "max_annual_change", Num(0))).suggestions
    \o VehicleTypesCheck(Get(parameters, "vehicle_types", PyList(<<>>))).suggestions

\* lines 154-162; target > 0.5 and len(years) > 5 are evaluated first, and
\* max_change is compared only when they hold (short-circuit `and`)
CrossFieldRaises(parameters) ==
    LET target == parameters.target_emissions_reduction
        max_change == parameters.max_annual_change
    IN  \/ ~target.num
        \/ target.v > 50 /\ ~max_change.num
        \/ ~parameters.years.sized
        \/ Len(parameters.years.items) > 5 /\ ~max_change.num

CrossFieldSuggestions(parameters, errors, warnings) ==
    LET target == parameters.target_emissions_reduction
        max_change == parameters.max_annual_change
    IN  (IF warnings = <<>> /\ errors = <<>>
           THEN <<"Scenario parameters look good!">> ELSE <<>>)
        \o (IF target.v > 50 /\ max_change.v < 15
              THEN <<"High target with low change rate">> ELSE <<>>)
        \o (IF Len(parameters.years.items) > 5 /\ max_change.v > 15
              THEN <<"Many years with high change rate">> ELSE <<>>)

Raised(exc) == [raised |-> exc]

validate_scenario_parameters(parameters) ==
    IF MissingKeys(parameters) # <<>>
      THEN [valid |-> FALSE,
            errors |-> <<<<"Missing required parameters",
                           MissingKeys(parameters)>>>>,
            warnings |-> <<>>, suggestions |-> <<>>]
    ELSE IF CrossFieldRaises(parameters)
      THEN Raised("TypeError")
    ELSE [valid |-> Len(FieldErrors(parameters)) = 0,
          errors |-> FieldErrors(parameters),
          warnings |-> FieldWarnings(parameters),
          suggestions |->
             FieldSuggestions(parameters)
             \o CrossFieldSuggestions(parameters, FieldErrors(parameters),
                                      FieldWarnings(parameters))]

\* the mutant of ParametersAfter in which the years list is sorted in place
\* (years.sort()) where the code sorts a copy (sorted(years_int))
ParametersWithYearsSorted(parameters) ==
    [parameters EXCEPT !.years.items =
        SortSeq(@, LAMBDA a, b : a.v < b.v)]

\* the caller's parameters map after a call: the function only reads it
\* (parameters.get, `in`, len, iteration)
ParametersAfter(parameters) == parameters

\* a caller validates a parameters map ...
ValidateScenarioParameters ==
    /\ val.op = "none"
    /\ \E parameters \in ValInputs :
          val' = [op |-> "validate", given |-> parameters,
                  parameters |-> ParametersAfter(parameters),
                  returned |-> <<validate_scenario_parameters(parameters)>>]
    /\ UNCHANGED <<optVars, calcVars, agg, veh, energy, sval, analysis, db, api, tasks, loop_running>>

\* ... and validates the same map once more
ValidateAgain ==
    /\ val.op = "validate"
    /\ Len(val.returned) = 1
    /\ val' = [val EXCEPT
                 !.parameters = ParametersAfter(val.parameters),
                 !.returned = Append(@,
                                validate_scenario_parameters(val.parameters))]
    /\ UNCHANGED <<optVars, calcVars, agg, veh, energy, sval, analysis, db, api, tasks, loop_running>>

(***************************************************************************)
(* AdvancedCalculationEngine._calculate_vehicle_type and the functions it   *)
(* calls.  Floats are exact fractions [num, den] with den > 0.  Purchase    *)
(* costs are in thousands, operating costs and emission factors in          *)
(* hundredths, mileages in units of 500 miles, base adoption rates in       *)
(* tenths.                                                                  *)
(***************************************************************************)
Rat(n, d) == [num |-> n, den |-> d]
RatMul(a, b) == Rat(a.num * b.num, a.den * b.den)
RatLeq(a, b) == a.num * b.den <= b.num * a.den
RatMin(a, b) == IF RatLeq(a, b) THEN a ELSE b
RatMax(a, b) == IF RatLeq(a, b) THEN b ELSE a

\* years the engine's validation accepts: integers above 2020
VehYears == {2021, 2050, 2090, 2125}
VehTypes == {"Passenger Cars", "Buses"}

\* scenario_data['adoption_rates'][vehicle_type]: absent, or a rate per
\* technology
BaseRateChoices ==
    { [technology \in {} |-> 0],
      [technology \in {"Electric", "Hybrid", "Petrol", "Diesel"} |->
          CASE technology = "Electric" -> 5
            [] technology = "Diesel" -> 0
            [] OTHER -> 10] }

\* the roster literal of _get_vehicle_data, i counting from 0
base_vehicles(vehicle_type) ==
    IF vehicle_type = "Passenger Cars"
      THEN [k \in 1..5 |->
              LET i == k - 1 IN
              [vehicle_id |-> <<"car", i>>,
               technology |-> IF i % 3 = 0 THEN "Electric"
                              ELSE IF i % 3 = 1 THEN "Hybrid" ELSE "Petrol",
               emissions_factor_lifecycle |->
                   IF i % 3 = 0 THEN 6 ELSE IF i % 3 = 1 THEN 17 ELSE 21,
               annual_mileage |-> 16 + i,
               purchase_cost |->
                   Rat(IF i % 3 = 0 THEN 35 ELSE IF i % 3 = 1 THEN 28 ELSE 25, 1),
               operating_cost_per_mile |->
                   Rat(IF i % 3 = 0 THEN 8 ELSE IF i % 3 = 1 THEN 12 ELSE 15, 100),
               technology_readiness_level |->
                   IF i % 3 = 0 THEN 9 ELSE IF i % 3 = 1 THEN 8 ELSE 9]]
    ELSE IF vehicle_type = "Buses"
      THEN [k \in 1..3 |->
              LET i == k - 1 IN
              [vehicle_id |-> <<"bus", i>>,
               technology |-> IF i % 2 = 0 THEN "Electric" ELSE "Diesel",
               emissions_factor_lifecycle |-> IF i % 2 = 0 THEN 25 ELSE 95,
               annual_mileage |-> 50 + 4 * i,
               purchase_cost |-> Rat(IF i % 2 = 0 THEN 350 ELSE 250, 1),
               operating_cost_per_mile |-> Rat(IF i % 2 = 0 THEN 18 ELSE 25, 100),
               technology_readiness_level |-> IF i % 2 = 0 THEN 8 ELSE 9]]
    ELSE <<>>

\* the mutant of RosterFor in which the roster outlives the call: a later
\* call for the same vehicle type adjusts the vehicles the earlier one left
RosterKeptAcrossCalls(vehicle_type, earlier) ==
    LET same == SelectSeq(earlier,
                          LAMBDA c : c.vehicle_type = vehicle_type)
    IN  IF same = <<>> THEN base_vehicles(vehicle_type)
        ELSE same[Len(same)].result.vehicle_data

\* the roster a call adjusts: base_vehicles is built inside the call, so
\* the calls made earlier have no part in it
RosterFor(vehicle_type, earlier) == base_vehicles(vehicle_type)

\* the year-specific modification of one vehicle, with
\* year_factor = (year - 2020) / 30 and int(year_factor * 2) = t \div 15
AdjustForYear(vehicle, year) ==
    LET t == year - 2020
        trl == vehicle.technology_readiness_level + (t \div 15)
    IN  [vehicle EXCEPT
           !.technology_readiness_level = IF trl < 9 THEN trl ELSE 9,
           !.purchase_cost = RatMul(@, Rat(100 - t, 100)),
           !.operating_cost_per_mile = RatMul(@, Rat(150 - t, 150))]

get_vehicle_data(vehicle_type, year, earlier) ==
    LET vehicles == RosterFor(vehicle_type, earlier)
    IN  [k \in 1..Len(vehicles) |-> AdjustForYear(vehicles[k], year)]

\* the adoption rate of one vehicle
AdoptionRate(technology, year, base_rates) ==
    LET t == year - 2020
        base_rate == IF technology \in DOMAIN base_rates
                       THEN base_rates[technology] ELSE 1
    IN  IF technology = "Electric"
          THEN RatMin(Rat(95, 100), Rat(base_rate * (10 + t), 100))
        ELSE IF technology = "Hybrid"
          THEN RatMin(Rat(8, 10),
                      Rat(base_rate * (15 + t) * (60 - t), 9000))
        ELSE RatMax(Rat(5, 100), Rat(base_rate * (15 - t), 150))

calculate_adoption_rates(year, vehicle_data, base_rates) ==
    [k \in 1..Len(vehicle_data) |->
        AdoptionRate(vehicle_data[k].technology, year, base_rates)]

\* emissions_per_vehicle of _calculate_emissions; the costs, energy and
\* the other calculations are, like it, sums and products of fields of
\* vehicle_data and of adoption_rates
calculations(vehicle_data, adoption_rates) ==
    [k \in 1..Len(vehicle_data) |->
        [emissions |->
            RatMul(adoption_rates[k],
                   Rat(vehicle_data[k].emissions_factor_lifecycle
                         * vehicle_data[k].annual_mileage, 100))]]

calculate_vehicle_type(year, vehicle_type, constraints, base_rates, earlier) ==
    LET vehicle_data == get_vehicle_data(vehicle_type, year, earlier)
        adoption_rates ==
            calculate_adoption_rates(year, vehicle_data, base_rates)
    IN  [vehicle_type |-> vehicle_type,
         year |-> year,
         vehicle_data |-> vehicle_data,
         adoption_rates |-> adoption_rates,
         calculations |-> calculations(vehicle_data, adoption_rates),
         constraint_compliance |->
            check_vehicle_constraints(vehicle_type, year, constraints)]

\* one more call of the per-vehicle calculator on the engine
CalculateVehicleType ==
    /\ Len(veh) < MaxVehCalls
    /\ \E year \in VehYears, vehicle_type \in VehTypes,
          base_rates \in BaseRateChoices :
          veh' = Append(veh,
                   [year |-> year, vehicle_type |-> vehicle_type,
                    constraints |-> {}, base_rates |-> base_rates,
                    result |-> calculate_vehicle_type(year, vehicle_type, {},
                                                      base_rates, veh)])
    /\ UNCHANGED <<optVars, calcVars, agg, val, energy, sval, analysis, db, api, tasks, loop_running>>

(***************************************************************************)
(* AdvancedCalculationEngine._calculate_energy_consumption, on rosters that *)
(* may hold a vehicle whose fuel_efficiency is 0.  Efficiencies are in      *)
(* hundredths, energy factors and adoption rates in tenths, mileages in     *)
(* units of 500 miles.                                                      *)
(***************************************************************************)
RatAdd(a, b) == Rat(a.num * b.den + b.num * a.den, a.den * b.den)

\* kWh per unit of fuel; a fuel type outside the table counts 1.0
energy_factors(fuel_type) ==
    CASE fuel_type = "Electric" -> 10
      [] fuel_type = "Petrol" -> 95
      [] fuel_type = "Diesel" -> 107
      [] fuel_type = "Hybrid" -> 50
      [] fuel_type = "Hydrogen" -> 333
      [] OTHER -> 10

EnergyVehicles ==
    [fuel_type : {"Electric", "Petrol"}, fuel_efficiency : {0, 65, 85},
     annual_mileage : {16}, adoption_rate : {0, 5}]

EnergyRosters == UNION { [1..n -> EnergyVehicles] : n \in 1..MaxRoster }

\* adoption_rate * (annual_mileage / fuel_efficiency) * energy_factor, for a
\* vehicle whose fuel_efficiency is not 0
vehicle_energy(vehicle) ==
    Rat(vehicle.adoption_rate * vehicle.annual_mileage
          * energy_factors(vehicle.fuel_type),
        vehicle.fuel_efficiency)

\* the sum of the energies of the vehicles at the positions in `which`
RECURSIVE EnergySum(_, _, _)
EnergySum(roster, n, which) ==
    IF n = 0 THEN Rat(0, 1)
    ELSE IF n \in which
      THEN RatAdd(EnergySum(roster, n - 1, which), vehicle_energy(roster[n]))
    ELSE EnergySum(roster, n - 1, which)

\* annual_mileage / fuel_efficiency raises ZeroDivisionError at the first
\* vehicle whose fuel_efficiency is 0
DivisionRaises(roster) ==
    \E k \in 1..Len(roster) : roster[k].fuel_efficiency = 0

calculate_energy_consumption(roster) ==
    IF DivisionRaises(roster) THEN Raised("ZeroDivisionError")
    ELSE [total_energy_consumption |->
             EnergySum(roster, Len(roster), 1..Len(roster)),
          energy_by_fuel_type |->
             [f \in {roster[k].fuel_type : k \in 1..Len(roster)} |->
                 EnergySum(roster, Len(roster),
                           {k \in 1..Len(roster) : roster[k].fuel_type = f})],
          energy_per_vehicle |->
             [k \in 1..Len(roster) |-> vehicle_energy(roster[k])]]

\* what calculate_scenario returns when the energy step raises: no frame
\* between the two catches the exception, so its handler answers
CalculationFailed(exc) ==
    [success |-> FALSE, error |-> exc, message |-> "Calculation failed"]

\* the energy step of a scenario calculation on one roster
CalculateEnergyConsumption ==
    /\ energy.op = "none"
    /\ \E roster \in EnergyRosters :
          LET out == calculate_energy_consumption(roster)
          IN  energy' =
                [op |-> "energy", roster |-> roster, out |-> out,
                 scenario |->
                    IF "raised" \in DOMAIN out
                      THEN CalculationFailed(out.raised)
                      ELSE [continues |-> TRUE]]
    /\ UNCHANGED <<optVars, calcVars, agg, val, veh, sval, analysis, db, api, tasks, loop_running>>

(***************************************************************************)
(* AdvancedCalculationEngine._validate_scenario_data on scenarios whose     *)
(* constraints map has keys, registered or not.                             *)
(***************************************************************************)
ConstraintKeyChoices ==
    {"technology_readiness", "cost_constraints", "carbon_budget",
     "noise_limit"}

ConstrainedScenarios ==
    { [d EXCEPT !.constraints = c] :
        d \in ScenarioInputs, c \in SUBSET ConstraintKeyChoices }

ValidateScenarioData ==
    /\ sval.op = "none"
    /\ \E data \in ConstrainedScenarios :
          sval' = [op |-> "validate", data |-> data,
                   validated_data |-> validate_scenario_data(data),
                   constraint_validation |->
                      validate_constraints(data.constraints)]
    /\ UNCHANGED <<optVars, calcVars, agg, val, veh, energy, analysis, db, api, tasks, loop_running>>

(***************************************************************************)
(* ConstraintManager.analyze_constraints on results whose cells are         *)
(* compliant or not, each with a list of violations.                        *)
(***************************************************************************)
ComplianceChoices ==
    { [compliant |-> TRUE, violations |-> <<>>, warnings |-> <<>>],
      [compliant |-> TRUE, violations |-> <<"over budget">>,
       warnings |-> <<>>],
      [compliant |-> FALSE, violations |-> <<"over budget">>,
       warnings |-> <<>>],
      [compliant |-> FALSE, violations |-> <<>>, warnings |-> <<>>] }

AnalysisYears == [k \in 1..MaxAnalysisYears |-> 2020 + 5 * k]
AnalysisVehicleTypes == <<"Passenger Cars", "Buses">>

\* results['per_year_results'] with every cell's compliance chosen freely
AnalysisInputs ==
    [Range(AnalysisYears) ->
        [vehicle_calculations :
            [Range(AnalysisVehicleTypes) ->
                [constraint_compliance : ComplianceChoices]]]]

AnalyzeConstraints ==
    /\ analysis.op = "none"
    /\ \E per_year \in AnalysisInputs :
          analysis' = [op |-> "analyze", per_year_results |-> per_year,
                       out |-> analyze_constraints(per_year, AnalysisYears,
                                                   AnalysisVehicleTypes)]
    /\ UNCHANGED <<optVars, calcVars, agg, val, veh, energy, sval, db, api, tasks, loop_running>>

(***************************************************************************)
(* The scenario routes of app/api/v1/endpoints.py: create, update and       *)
(* optimize, over the scenarios table.  Parameters maps are those of        *)
(* validate_scenario_parameters above.                                      *)
(***************************************************************************)
\* the keys of VEHICLE_EMISSIONS
CatalogCategories == valid_categories \cup {"Specialist Vehicles"}

ApiParameters ==
    { BaseParameters,
      [BaseParameters EXCEPT
          !.years = PyList(<<YearInt(2030), YearInt(2025)>>)],
      [BaseParameters EXCEPT !.years = PyList(<<YearInt(2025)>>)],
      [BaseParameters EXCEPT !.target_emissions_reduction = Num(110)],
      [BaseParameters EXCEPT !.max_annual_change = Num(35)],
      [BaseParameters EXCEPT !.vehicle_types = PyList(<<"Hovercraft">>)],
      [BaseParameters EXCEPT !.vehicle_types = PyList(<<>>)],
      [BaseParameters EXCEPT !.present = AllParameterKeys \ {"years"}] }

\* ScenarioCreate.validate_parameters (schemas.py): TRUE when the validator
\* returns v, FALSE when it raises and the request is refused
SchemaAccepts(v) ==
    /\ \A k \in 1..Len(required_keys) : required_keys[k] \in v.present
    /\ v.years.sized
    /\ Len(v.years.items) >= 2
    /\ Len(v.years.items) <= 10
    /\ v.target_emissions_reduction.num
    /\ 0 <= v.target_emissions_reduction.v
    /\ v.target_emissions_reduction.v <= 100
    /\ v.max_annual_change.num
    /\ 5 <= v.max_annual_change.v
    /\ v.max_annual_change.v <= 30
    /\ Len(v.vehicle_types.items) >= 1
    /\ Len(v.vehicle_types.items) <= 10

\* the loop of both routes over the vehicle types: none outside the catalog
VehicleTypesInCatalog(vehicle_types) ==
    \A k \in 1..Len(vehicle_types.items) :
        vehicle_types.items[k] \in CatalogCategories

\* POST /scenarios/
CreateScenario ==
    /\ Len(db) < MaxScenarios
    /\ \E parameters \in ApiParameters :
          IF ~SchemaAccepts(parameters)
            THEN /\ api' = [op |-> "create", status |-> 422]
                 /\ UNCHANGED db
          ELSE IF ~VehicleTypesInCatalog(
                      Get(parameters, "vehicle_types", PyList(<<>>)))
            THEN /\ api' = [op |-> "create", status |-> 400]
                 /\ UNCHANGED db
          ELSE /\ db' = Append(db, parameters)
               /\ api' = [op |-> "create", status |-> 201]
    /\ UNCHANGED <<optVars, calcVars, agg, val, veh, energy, sval, analysis, tasks, loop_running>>

\* ScenarioUpdate has no validator for parameters
NoParameters == [unset |-> TRUE]

\* PUT /scenarios/{scenario_id}
UpdateScenario ==
    /\ \E scenario_id \in 1..MaxScenarios,
          parameters \in ApiParameters \cup {NoParameters} :
          IF scenario_id > Len(db)
            THEN /\ api' = [op |-> "update", status |-> 404]
                 /\ UNCHANGED db
          ELSE IF parameters = NoParameters
            THEN /\ api' = [op |-> "update", status |-> 200]
                 /\ UNCHANGED db
          ELSE IF /\ "vehicle_types" \in parameters.present
                  /\ ~VehicleTypesInCatalog(parameters.vehicle_types)
            THEN /\ api' = [op |-> "update", status |-> 400]
                 /\ UNCHANGED db
          ELSE /\ db' = [db EXCEPT ![scenario_id] = parameters]
               /\ api' = [op |-> "update", status |-> 200]
    /\ UNCHANGED <<optVars, calcVars, agg, val, veh, energy, sval, analysis, tasks, loop_running>>

\* request.custom_parameters: None, or a map of overrides
CustomParametersChoices ==
    { [present |-> {}],
      [present |-> {"target_emissions_reduction"},
       target_emissions_reduction |-> Num(110)],
      [present |-> {"years"}, years |-> PyList(<<YearInt(2025)>>)] }

\* lines 491-503: the stored parameters read with their defaults, then
\* optimization_data.update(custom_parameters)
OptimizationData(parameters, custom_parameters) ==
    LET stored ==
          [present |-> AllParameterKeys,
           years |-> Get(parameters, "years", PyList(<<>>)),
           target_emissions_reduction |->
               Get(parameters, "target_emissions_reduction", Num(0)),
           max_annual_change |->
               Get(parameters, "max_annual_change", Num(10)),
           vehicle_types |-> Get(parameters, "vehicle_types", PyList(<<>>)),
           other |-> parameters.other]
    IN  [key \in DOMAIN stored |->
            IF key \in custom_parameters.present
              THEN custom_parameters[key] ELSE stored[key]]

\* POST /optimize: the route hands optimization_data to
\* optimize_transport_pathway, whose run is modelled above
OptimizePathway ==
    /\ \E scenario_id \in 1..MaxScenarios,
          custom_parameters \in CustomParametersChoices :
          api' = IF scenario_id > Len(db)
                   THEN [op |-> "optimize", invoked |-> FALSE,
                         success |-> FALSE]
                   ELSE [op |-> "optimize", invoked |-> TRUE,
                         optimization_data |->
                             OptimizationData(db[scenario_id],
                                              custom_parameters)]
    /\ UNCHANGED db
    /\ UNCHANGED <<optVars, calcVars, agg, val, veh, energy, sval, analysis, tasks, loop_running>>

(***************************************************************************)
(* The handlers of advanced_endpoints.py under concurrent requests.  Both   *)
(* are coroutines (async def) of one event loop: the loop runs one handler  *)
(* at a time and only changes handler where the running one awaits.  A      *)
(* handler is followed step by step: the calculation, the cache insertion,  *)
(* the creation of the dictionary iterator of get_cached_result and each    *)
(* entry its loop visits.                                                   *)
(***************************************************************************)
\* handlers in which the scan awaits after creating its iterator
AwaitsWhileIterating(pc) == pc = "iterate"

\* neither handler, nor anything it calls, contains an await
AwaitsAt(pc) == FALSE

NewTask(kind, scenario_id) ==
    [kind |-> kind, scenario_id |-> scenario_id, pc |-> "pending",
     pos |-> 0, expect |-> 0, ret |-> None, status |-> 0,
     raised |-> "none", arrived_during |-> loop_running]

\* the server accepts a request while the loop is idle or busy
RequestArrives ==
    /\ Len(tasks) < MaxRequests
    /\ \E kind \in {"calculate", "get"}, scenario_id \in ScenarioIds :
          tasks' = Append(tasks, NewTask(kind, scenario_id))
    /\ UNCHANGED loop_running
    /\ UNCHANGED <<optVars, calcVars, agg, val, veh, energy, sval, analysis,
                   db, api>>

\* the idle loop takes up a handler: a new one, or one that awaited
EventLoopRuns ==
    /\ loop_running = 0
    /\ \E i \in 1..Len(tasks) :
          /\ tasks[i].pc # "done"
          /\ loop_running' = i
          /\ tasks' = [tasks EXCEPT ![i].pc =
                          IF @ # "pending" THEN @
                          ELSE IF tasks[i].kind = "calculate"
                            THEN "calculate" ELSE "iterate"]
    /\ UNCHANGED <<optVars, calcVars, agg, val, veh, energy, sval, analysis,
                   db, api>>

\* who runs after a step that leaves the handler at pc
LoopAfter(i, pc) == IF pc = "done" \/ AwaitsAt(pc) THEN 0 ELSE i

\* calculate_advanced_scenario up to the cache insertion; a result without
\* success raises HTTPException(400) inside the try, re-raised as 500
HandlerCalculates ==
    /\ loop_running # 0
    /\ tasks[loop_running].pc = "calculate"
    /\ LET i == loop_running
           data == [BaseScenario EXCEPT !.scenario_id = tasks[i].scenario_id]
           ret == CalcReturn(data, validate_scenario_data(data), clock,
                             real_time_updates)
           pc == IF ret.success THEN "cache" ELSE "done"
       IN  /\ tasks' = [tasks EXCEPT ![i].pc = pc, ![i].ret = ret,
                                     ![i].status =
                                        IF ret.success THEN 0
                                        ELSE ExceptStatus(400)]
           /\ loop_running' = LoopAfter(i, pc)
    /\ UNCHANGED <<optVars, calcVars, agg, val, veh, energy, sval, analysis,
                   db, api>>

\* _cache_results and the handler's return
HandlerCaches ==
    /\ loop_running # 0
    /\ tasks[loop_running].pc = "cache"
    /\ LET i == loop_running
       IN  /\ calculation_cache' =
                 cache_results(calculation_cache, tasks[i].ret.results)
           /\ history' = Append(history, tasks[i].ret.results)
           /\ tasks' = [tasks EXCEPT ![i].pc = "done", ![i].status = 200]
           /\ loop_running' = 0
    /\ UNCHANGED <<real_time_updates, clock, calc_in, calc_stages, resp>>
    /\ UNCHANGED <<optVars, agg, val, veh, energy, sval, analysis, db, api>>

\* get_cached_result creates the iterator of calculation_cache.items(),
\* which remembers the size of the dictionary
HandlerIterates ==
    /\ loop_running # 0
    /\ tasks[loop_running].pc = "iterate"
    /\ LET i == loop_running
       IN  /\ tasks' = [tasks EXCEPT ![i].pc = "scan", ![i].pos = 1,
                           ![i].expect = Len(calculation_cache)]
           /\ loop_running' = LoopAfter(i, "iterate")
    /\ UNCHANGED <<optVars, calcVars, agg, val, veh, energy, sval, analysis,
                   db, api>>

\* one turn of the loop of get_cached_result: the iterator raises
\* RuntimeError when the dictionary changed size, else yields the next
\* entry or ends; the handler re-raises whatever was raised as 500
HandlerScans ==
    /\ loop_running # 0
    /\ tasks[loop_running].pc = "scan"
    /\ LET i == loop_running
           t == tasks[i]
       IN  /\ tasks' =
                 IF Len(calculation_cache) # t.expect
                   THEN [tasks EXCEPT ![i].pc = "done",
                            ![i].raised = "RuntimeError",
                            ![i].status = ExceptStatus(500)]
                 ELSE IF t.pos > Len(calculation_cache)
                   THEN [tasks EXCEPT ![i].pc = "done",
                            ![i].status = ExceptStatus(404)]
                 ELSE IF calculation_cache[t.pos].result.scenario_id
                            = t.scenario_id
                   THEN [tasks EXCEPT ![i].pc = "done", ![i].status = 200,
                            ![i].ret = calculation_cache[t.pos].result]
                 ELSE [tasks EXCEPT ![i].pos = @ + 1]
           /\ loop_running' = LoopAfter(i, tasks'[i].pc)
    /\ UNCHANGED <<optVars, calcVars, agg, val, veh, energy, sval, analysis,
                   db, api>>

\* no function has been called yet
FnInit ==
    /\ agg = [op |-> "none"]
    /\ val = [op |-> "none"]
    /\ veh = <<>>
    /\ energy = [op |-> "none"]
    /\ sval = [op |-> "none"]
    /\ analysis = [op |-> "none"]
    /\ db = <<>>
    /\ api = [op |-> "none"]
    /\ tasks = <<>>
    /\ loop_running = 0

Init == OptInit /\ CalcInit /\ FnInit

\* one call of the optimizer
OptNext ==
    \/ \E d \in OptInputs : OptCall(d)
    \/ OptPrimarySolve
    \/ OptFallbackSolve

\* the optimizer never touches the engine, which stays as
\* advanced_endpoints.py constructed it
OptProcessInit == Init /\ real_time_updates = TRUE

SpecOpt == OptProcessInit /\ [][OptNext]_vars

\* requests served by the process that owns advanced_engine
CalcNext ==
    \/ \E data \in ScenarioInputs : CalculateScenario(data)
    \/ \E id \in ScenarioIds \cup {UnknownId} : GetAdvancedScenarioResults(id)
    \/ Tick

SpecCalc == Init /\ [][CalcNext]_vars

\* calls of the aggregation engine
AggNext ==
    \/ PerformComprehensiveAggregation

SpecAgg == OptProcessInit /\ [][AggNext]_vars

\* calls of validate_scenario_parameters
ValidateNext ==
    \/ ValidateScenarioParameters
    \/ ValidateAgain

SpecValidate == OptProcessInit /\ [][ValidateNext]_vars

\* calls of the per-vehicle calculator
VehicleNext ==
    \/ CalculateVehicleType

SpecVehicle == OptProcessInit /\ [][VehicleNext]_vars

\* the energy step on one roster
EnergyNext ==
    \/ CalculateEnergyConsumption

SpecEnergy == OptProcessInit /\ [][EnergyNext]_vars

\* one validation of a scenario with constraints
ScenarioValidationNext ==
    \/ ValidateScenarioData

SpecScenarioValidation == OptProcessInit /\ [][ScenarioValidationNext]_vars

\* one analysis of the constraints of a results dictionary
AnalysisNext ==
    \/ AnalyzeConstraints

SpecAnalysis == OptProcessInit /\ [][AnalysisNext]_vars

\* requests to the scenario routes, in any order
ApiNext ==
    \/ CreateScenario
    \/ UpdateScenario
    \/ OptimizePathway

SpecApi == OptProcessInit /\ [][ApiNext]_vars

\* concurrent requests to the process that owns advanced_engine
ServeNext ==
    \/ RequestArrives
    \/ EventLoopRuns
    \/ HandlerCalculates
    \/ HandlerCaches
    \/ HandlerIterates
    \/ HandlerScans

SpecServe == Init /\ [][ServeNext]_vars

(***************************************************************************)
(* Properties of the optimizer.                                            *)
(***************************************************************************)
OptDone == opt_pc = "done"
OptReturned == OptDone /\ opt_outcome = "returned"

\* the cell a raw Python index of the decision vector reads, counted from 0
CellOf(k, d) == PyIndex(d.n_years * d.n_vehicle_types, k) - 1
YearOfCell(c, d) == c \div d.n_vehicle_types
TypeOfCell(c, d) == c % d.n_vehicle_types

RateConstraints(cons) ==
    {cons[k] : k \in {m \in 1..Len(cons) : cons[m].kind # "target"}}

\* a rate constraint states x[Minuend] - x[Subtrahend] <= bound
Minuend(c, d) ==
    IF c.kind = "max_increase" THEN CellOf(c.hi, d) ELSE CellOf(c.lo, d)
Subtrahend(c, d) ==
    IF c.kind = "max_increase" THEN CellOf(c.lo, d) ELSE CellOf(c.hi, d)

HasRateBound(cons, d, a, b) ==
    \E c \in RateConstraints(cons) :
        /\ Minuend(c, d) = a
        /\ Subtrahend(c, d) = b
        /\ c.bound = d.max_annual_change

\* C1: with enable_constraints the constraint list handed to the solver
\* holds, for every vehicle type j and every adjacent year pair (i-1, i),
\* an upper and a lower bound on x[i][j] - x[i-1][j], and holds no rate
\* constraint between two years that are not adjacent.
C1_RateConstraintsAdjacent ==
    (opt_pc # "idle" /\ opt_constraints # <<>> /\ opt_in.enable_constraints)
    => LET d == opt_in
           nv == d.n_vehicle_types
       IN  /\ \A i \in 1..(d.n_years - 1) : \A j \in 0..(nv - 1) :
                 /\ HasRateBound(opt_constraints, d,
                                 i * nv + j, (i - 1) * nv + j)
                 /\ HasRateBound(opt_constraints, d,
                                 (i - 1) * nv + j, i * nv + j)
           /\ \A c \in RateConstraints(opt_constraints) :
                 /\ TypeOfCell(Minuend(c, d), d) = TypeOfCell(Subtrahend(c, d), d)
                 /\ Abs(YearOfCell(Minuend(c, d), d)
                        - YearOfCell(Subtrahend(c, d), d)) = 1

Flat(m, d) ==
    [k \in 1..(d.n_years * d.n_vehicle_types) |->
        m[((k - 1) \div d.n_vehicle_types) + 1]
         [((k - 1) % d.n_vehicle_types) + 1]]

\* C3: a result returned with success=true has total emissions of at most
\* initial_emissions * (1 - target_reduction), and every solve of the call,
\* primary or fallback, was given the target constraint.
C3_TargetMet ==
    /\ (OptReturned /\ opt_ret.success)
       => 100 * calculate_total_emissions(
                    Flat(opt_ret.optimized_adoption, opt_in), opt_in)
          <= calculate_total_emissions(opt_state, opt_in)
                 * (100 - opt_in.target_reduction)
    /\ \A k \in 1..Len(opt_solves) :
          \E m \in 1..Len(opt_solves[k].constraints) :
             opt_solves[k].constraints[m] = TargetConstraint(opt_in, opt_state)

\* C3 witness: a fallback solve produced a successful result for a positive
\* target on a scenario that has emissions data.
C3_Witness ==
    /\ OptReturned /\ opt_ret.success
    /\ Len(opt_solves) = 2
    /\ opt_in.target_reduction = 50
    /\ AnyTerm(opt_in)

OptFailurePath ==
    \/ opt_exc # "none"
    \/ opt_in.n_years < 2
    \/ opt_in.n_vehicle_types = 0
    \/ (Len(opt_solves) >= 1 /\ ~opt_solves[Len(opt_solves)].success)

\* C5: every call ends by returning a dictionary with a boolean success and
\* a message, never by raising, and success is false on every failure path.
C5_NeverRaises ==
    OptDone
    => /\ opt_outcome = "returned"
       /\ {"success", "message"} \subseteq DOMAIN opt_ret
       /\ opt_ret.success \in BOOLEAN
       /\ OptFailurePath => opt_ret.success = FALSE

\* C5 witness: both solves failed and the post-processing then divided by
\* zero, and the call still returned.
C5_Witness ==
    /\ OptDone
    /\ Len(opt_solves) = 2
    /\ ~opt_solves[2].success
    /\ opt_exc = "ZeroDivisionError"

\* C6: every returned dictionary has the fields success, message,
\* optimized_adoption and objective_value.
C6_ResultFields ==
    OptReturned
    => {"success", "message", "optimized_adoption", "objective_value"}
           \subseteq DOMAIN opt_ret

\* C7: a call with target_reduction = 0, at least two years and at least
\* one vehicle type returns success=true, whatever emissions data exists.
C7_ZeroTargetSucceeds ==
    (OptDone /\ opt_in.target_reduction = 0
        /\ opt_in.n_years >= 2 /\ opt_in.n_vehicle_types >= 1)
    => (opt_outcome = "returned" /\ opt_ret.success)

(***************************************************************************)
(* Properties of the calculation engine, its cache and the retrieval       *)
(* endpoint.                                                               *)
(***************************************************************************)
\* the scenarios validation is to reject: a missing required field, fewer
\* than 2 years, a year that is not an integer > 2020, no vehicle types, a
\* target outside [0, 1]
FailsValidation(data) ==
    \/ \E f \in {"years", "vehicle_types", "target_reduction"} :
          f \notin data.present
    \/ Len(data.years) < 2
    \/ \E k \in 1..Len(data.years) :
          ~data.years[k].int \/ data.years[k].v <= 2020
    \/ data.vehicle_types = <<>>
    \/ data.target_reduction < 0
    \/ data.target_reduction > 100

\* C8: a calculate_scenario call on a scenario that fails validation
\* returns success=false with the validation errors, having run no stage
\* but the validation, and leaves the cache as it was.
C8_InvalidStopsBeforeComputation ==
    [][(resp'.op = "calculate" /\ clock' = clock /\ FailsValidation(calc_in'))
       => /\ resp'.ret.success = FALSE
          /\ "errors" \in DOMAIN resp'.ret
          /\ resp'.ret.errors # <<>>
          /\ calc_stages' = <<"validate">>
          /\ calculation_cache' = calculation_cache
          /\ history' = history]_vars

\* C8 witness: a scenario with three defects was submitted and came back
\* with its three validation errors, only the validation having run.
C8_Witness ==
    /\ resp.op = "calculate"
    /\ FailsValidation(calc_in)
    /\ ~resp.ret.success
    /\ Len(resp.ret.errors) = 3
    /\ calc_stages = <<"validate">>

\* the completed calculations of one scenario id, oldest first
HistoryOf(id) == SelectSeq(history, LAMBDA r : r.scenario_id = id)

\* C9: once two or more calculations of a scenario id have been cached, a
\* lookup by that id gives the result of the most recent one.
C9_MostRecentWins ==
    \A id \in ScenarioIds :
        Len(HistoryOf(id)) >= 2
        => get_cached_result(calculation_cache, id)
               = HistoryOf(id)[Len(HistoryOf(id))]

\* C10: retrieving a scenario id that has no cached result finds nothing in
\* the cache and answers 404, not a server error.
C10_MissIsNotFound ==
    (resp.op = "get"
        /\ get_cached_result(calculation_cache, resp.scenario_id) = None)
    => (resp.cached = None /\ resp.status = 404)

\* C11: once a calculation of a scenario id has completed on the caching
\* engine, every later lookup of that id finds a result carrying that id,
\* whatever was calculated since; the retrieval endpoint then answers 200.
C11_CachedStaysCached ==
    /\ \A id \in ScenarioIds :
          HistoryOf(id) # <<>>
          => /\ get_cached_result(calculation_cache, id) # None
             /\ get_cached_result(calculation_cache, id).scenario_id = id
    /\ (resp.op = "get" /\ resp.scenario_id \in ScenarioIds
           /\ HistoryOf(resp.scenario_id) # <<>>)
       => (resp.status = 200 /\ resp.cached.scenario_id = resp.scenario_id)

\* C11 witness: s1 was calculated, then s2, and a later lookup of s1 still
\* found it.
C11_Witness ==
    /\ Len(history) = 2
    /\ history[1].scenario_id = "s1"
    /\ history[2].scenario_id = "s2"
    /\ resp.op = "get" /\ resp.scenario_id = "s1"
    /\ resp.status = 200

(***************************************************************************)
(* Properties of the aggregation engine.                                   *)
(***************************************************************************)
AggDone == agg.op = "aggregate"

\* C12: scenario_summary.total_emissions is the sum of total_emissions over
\* the entries of yearly_totals, and total_cost the sum of their total_cost,
\* also when the years list repeats a year.
C12_SummaryIsSumOfYearlyTotals ==
    AggDone
    => LET yt == agg.out.yearly_totals
       IN  /\ agg.out.scenario_summary.total_emissions
                = SumOver([y \in DOMAIN yt |-> yt[y].total_emissions],
                          DOMAIN yt)
           /\ agg.out.scenario_summary.total_cost
                = SumOver([y \in DOMAIN yt |-> yt[y].total_cost], DOMAIN yt)

\* C12 witness: the years list repeated a year and the summary is not zero.
C12_Witness ==
    /\ AggDone
    /\ Len(agg.results.years) > Cardinality(DOMAIN agg.out.yearly_totals)
    /\ agg.out.scenario_summary.total_emissions > 0

\* C13: for emissions and for cost the vehicle_type_totals add up to the
\* scenario_summary total, a vehicle type missing from a year's calculations
\* adding nothing for that year.
C13_VehicleTotalsAddUp ==
    AggDone
    => LET vt == agg.out.vehicle_type_totals
       IN  /\ SumOver([t \in DOMAIN vt |-> vt[t].total_emissions], DOMAIN vt)
                = agg.out.scenario_summary.total_emissions
           /\ SumOver([t \in DOMAIN vt |-> vt[t].total_cost], DOMAIN vt)
                = agg.out.scenario_summary.total_cost

\* C13 witness: a listed vehicle type is missing from one year's
\* calculations and present in another's.
C13_Witness ==
    /\ AggDone
    /\ \E t \in DOMAIN agg.out.vehicle_type_totals :
          /\ agg.out.vehicle_type_totals[t].total_emissions > 0
          /\ \E y \in DOMAIN agg.out.yearly_totals :
                t \notin DOMAIN agg.out.yearly_totals[y]
                                    .emissions_by_vehicle_type

ValDone == val.op = "validate"
ValReturned(k) ==
    /\ ValDone
    /\ k <= Len(val.returned)
    /\ "valid" \in DOMAIN val.returned[k]
ValValid == ValReturned(1) /\ val.returned[1].valid

\* C14: validate returns valid=true only if vehicle_types is non-empty, has
\* at most 10 entries and every entry is a recognized vehicle category.
C14_ValidVehicleTypes ==
    ValValid =>
        LET vehicle_types == val.given.vehicle_types
        IN  /\ Len(vehicle_types.items) >= 1
            /\ Len(vehicle_types.items) <= 10
            /\ \A i \in 1..Len(vehicle_types.items) :
                  vehicle_types.items[i] \in valid_categories

Elems(seq) == {seq[i] : i \in 1..Len(seq)}

\* C15: validate returns valid=true only if years has between 2 and 10
\* entries, all integers, strictly ascending with every adjacent gap at
\* least 1; a gap above 10 is reported as a warning and is never an error.
C15_ValidYears ==
    /\ ValValid =>
          LET years == val.given.years.items
          IN  /\ val.given.years.is_list
              /\ Len(years) >= 2
              /\ Len(years) <= 10
              /\ \A i \in 1..Len(years) : years[i].int
              /\ \A i \in 1..(Len(years) - 1) : years[i + 1].v - years[i].v >= 1
    /\ ValReturned(1) =>
          "Large gap between years" \notin Elems(val.returned[1].errors)

TargetInBounds(parameters) ==
    /\ parameters.target_emissions_reduction.num
    /\ parameters.target_emissions_reduction.v >= 0
    /\ parameters.target_emissions_reduction.v <= 100
ChangeInBounds(parameters) ==
    /\ parameters.max_annual_change.num
    /\ parameters.max_annual_change.v >= 5
    /\ parameters.max_annual_change.v <= 30
SoftThresholdCrossed(parameters) ==
    \/ parameters.target_emissions_reduction.v > 80
    \/ parameters.target_emissions_reduction.v < 10
    \/ parameters.max_annual_change.v > 20
    \/ parameters.max_annual_change.v < 8
RangeMessages ==
    {"Target emissions reduction must be a number",
     "Target emissions reduction must be between 0 and 1",
     "Maximum annual change must be a number",
     "Maximum annual change must be between 0.05 and 0.3",
     "Very high target", "Very low target",
     "High annual change rate", "Low annual change rate"}
SoftMessages ==
    {"Very high target", "Very low target",
     "High annual change rate", "Low annual change rate"}

\* C16: validate returns valid=true only if target_emissions_reduction is in
\* [0, 1] and max_annual_change is in [0.05, 0.3]; in-range values beyond a
\* soft threshold (target above 0.8 or below 0.1, change above 0.2 or below
\* 0.08) are reported among the warnings and put nothing among the errors.
C16_ValidRanges ==
    /\ ValValid => TargetInBounds(val.given) /\ ChangeInBounds(val.given)
    /\ (/\ ValReturned(1)
        /\ val.given.present = AllParameterKeys
        /\ TargetInBounds(val.given)
        /\ ChangeInBounds(val.given))
       => /\ Elems(val.returned[1].errors) \cap RangeMessages = {}
          /\ SoftThresholdCrossed(val.given)
                => Elems(val.returned[1].warnings) \cap SoftMessages # {}

\* a valid result for a target of 0.9 and a change rate of 0.25, both
\* beyond their soft thresholds
C16_Witness ==
    /\ ValValid
    /\ val.given.target_emissions_reduction = Num(90)
    /\ val.given.max_annual_change = Num(25)
    /\ Elems(val.returned[1].warnings) \cap SoftMessages
          = {"Very high target", "High annual change rate"}

ValidatedTwice == ValDone /\ Len(val.returned) = 2

SameMapSameResult ==
    /\ ValDone => val.parameters = val.given
    /\ ValidatedTwice => val.returned[2] = val.returned[1]
    /\ (ValReturned(1) /\ val.given.present = AllParameterKeys)
          => /\ val.returned[1].errors = FieldErrors(val.given)
             /\ val.returned[1].warnings = FieldWarnings(val.given)
             /\ val.returned[1].valid = (FieldErrors(val.given) = <<>>)

SameCall(a, b) ==
    /\ a.year = b.year
    /\ a.vehicle_type = b.vehicle_type
    /\ a.constraints = b.constraints
    /\ a.base_rates = b.base_rates

NonNegative(a) == a.num >= 0

\* C19: for every accepted year the adjusted purchase_cost and
\* operating_cost_per_mile are non-negative and do not rise with the year,
\* and technology_readiness_level does not fall with the year and is at
\* most 9.
C19_CostsFallReadinessRises ==
    \A i, j \in 1..Len(veh) :
        \A k \in 1..Len(veh[i].result.vehicle_data) :
            LET a == veh[i].result.vehicle_data[k]
            IN  /\ NonNegative(a.purchase_cost)
                /\ NonNegative(a.operating_cost_per_mile)
                /\ a.technology_readiness_level <= 9
                /\ (veh[i].vehicle_type = veh[j].vehicle_type
                      /\ veh[i].year <= veh[j].year)
                   => LET b == veh[j].result.vehicle_data[k]
                      IN  /\ RatLeq(b.purchase_cost, a.purchase_cost)
                          /\ RatLeq(b.operating_cost_per_mile,
                                    a.operating_cost_per_mile)
                          /\ b.technology_readiness_level
                                >= a.technology_readiness_level

\* C20: for every accepted year and every base rate in [0, 1] each adoption
\* rate is in [0, 1]; Electric is at most 0.95, Hybrid at most 0.8 and not
\* negative, any other technology at least 0.05.
C20_AdoptionRatesAreFractions ==
    \A i \in 1..Len(veh) :
        \A k \in 1..Len(veh[i].result.adoption_rates) :
            LET rate == veh[i].result.adoption_rates[k]
                technology == veh[i].result.vehicle_data[k].technology
            IN  /\ NonNegative(rate)
                /\ RatLeq(rate, Rat(1, 1))
                /\ technology = "Electric" => RatLeq(rate, Rat(95, 100))
                /\ technology = "Hybrid" => RatLeq(rate, Rat(8, 10))
                /\ technology \notin {"Electric", "Hybrid"}
                      => RatLeq(Rat(5, 100), rate)

EnergyDone == energy.op = "energy"

\* C21: when a vehicle of the roster has fuel_efficiency 0, the energy
\* calculation still returns: that vehicle is left out of the energy total,
\* the other vehicles are counted, and the scenario calculation goes on
\* instead of failing.
C21_ZeroEfficiencyIsGuarded ==
    (EnergyDone /\ \E k \in 1..Len(energy.roster) :
                      energy.roster[k].fuel_efficiency = 0)
    => /\ "raised" \notin DOMAIN energy.out
       /\ "continues" \in DOMAIN energy.scenario
       /\ energy.out.total_energy_consumption
             = EnergySum(energy.roster, Len(energy.roster),
                         {k \in 1..Len(energy.roster) :
                             energy.roster[k].fuel_efficiency # 0})

UnknownKeys(data) == data.constraints \ constraint_types

\* C22: a scenario whose constraints map has an unrecognized key is not
\* made invalid by it (no error is about the key), and the result of the
\* scenario validation carries a warning that names the key.
C22_UnknownConstraintWarns ==
    (sval.op = "validate" /\ "constraints" \in sval.data.present)
    => \A key \in UnknownKeys(sval.data) :
          /\ sval.validated_data.valid
                = validate_scenario_data(
                     [sval.data EXCEPT !.constraints = {}]).valid
          /\ <<"Unknown constraint type", key>>
                \in sval.validated_data.warnings

AnalysisDone == analysis.op = "analyze"

NonCompliantCells(per_year) ==
    { <<y, vt>> \in Range(AnalysisYears) \X Range(AnalysisVehicleTypes) :
        ~per_year[y].vehicle_calculations[vt].constraint_compliance.compliant }

\* C23: analyze_constraints reports overall_compliance = false exactly when
\* some (year, vehicle_type) cell is not compliant, and constraint_violations
\* has one entry for each non-compliant cell, with the cell's year, vehicle
\* type and violation list, and no other entry.
C23_ViolationsMatchCells ==
    AnalysisDone =>
        LET per_year == analysis.per_year_results
            cells == NonCompliantCells(per_year)
            entries == analysis.out.constraint_violations
        IN  /\ analysis.out.overall_compliance = (cells = {})
            /\ Len(entries) = Cardinality(cells)
            /\ \A c \in cells :
                  \E k \in 1..Len(entries) :
                      entries[k] =
                        [year |-> c[1], vehicle_type |-> c[2],
                         violations |->
                            per_year[c[1]].vehicle_calculations[c[2]]
                                .constraint_compliance.violations]

\* two cells are not compliant, one of them with an empty violation list,
\* and a compliant cell carries a violation text
C23_Witness ==
    /\ AnalysisDone
    /\ ~analysis.out.overall_compliance
    /\ Len(analysis.out.constraint_violations) = 2
    /\ analysis.out.constraint_violations[1]
          = [year |-> 2025, vehicle_type |-> "Buses",
             violations |-> <<"over budget">>]
    /\ analysis.out.constraint_violations[2].violations = <<>>
    /\ analysis.per_year_results[2030].vehicle_calculations["Buses"]
          .constraint_compliance
          = [compliant |-> TRUE, violations |-> <<"over budget">>,
             warnings |-> <<>>]

\* the call returned the solution of the fallback solve
FromFallback ==
    /\ OptReturned
    /\ Len(opt_solves) = 2
    /\ "optimized_adoption" \in DOMAIN opt_ret

\* the texts the solver itself puts in result.message
SolverMessages ==
    {"Optimization terminated successfully", "solver did not converge"}

\* the keys of the dictionary a successful primary solve returns
PrimaryKeys ==
    {"success", "message", "optimized_adoption", "vehicle_types", "years",
     "results", "optimization_info"}

\* the dictionary says, in a key of its own or in its message, that the
\* rate constraints were relaxed
NotesRelaxation(ret) ==
    \/ DOMAIN ret \ PrimaryKeys # {}
    \/ ret.message \notin SolverMessages

\* C24: a solution that comes from the fallback (target-only) solve is
\* returned with success = true and with a note that the rate-of-change
\* constraints were relaxed.
C24_FallbackIsMarked ==
    FromFallback => opt_ret.success /\ NotesRelaxation(opt_ret)

\* C25: on an engine with real_time_updates on, calculate_scenario on a
\* scenario that passes validation returns success = true, and
\* results.real_time_updates has one entry per element of years, in the
\* order of years.
C25_RealTimeUpdatesPerYear ==
    (/\ resp.op = "calculate"
     /\ real_time_updates
     /\ validate_scenario_data(calc_in).valid)
    => /\ resp.ret.success
       /\ Len(resp.ret.results.real_time_updates) = Len(calc_in.years)
       /\ \A k \in 1..Len(calc_in.years) :
             resp.ret.results.real_time_updates[k].year = calc_in.years[k].v

Populated(dictionary) == DOMAIN dictionary # {}

CachedEntriesComplete ==
    \A k \in 1..Len(calculation_cache) :
        LET results == calculation_cache[k].result
        IN  /\ DOMAIN results.per_year_results
                  = {results.years[i].v : i \in 1..Len(results.years)}
            /\ Populated(results.aggregated_results)
            /\ Populated(results.constraint_analysis)
            /\ Populated(results.performance_metrics)

\* C28: a calculate_scenario call that returns success = false leaves
\* calculation_cache as it was, and every cached entry has per_year_results
\* for all of its years and populated aggregated_results,
\* constraint_analysis and performance_metrics.
C28_CacheHoldsCompletedOnly ==
    /\ []CachedEntriesComplete
    /\ [][(resp'.op = "calculate" /\ ~resp'.ret.success)
            => calculation_cache' = calculation_cache]_vars

\* a calculation was cached, and the call after it failed validation and
\* left the cache with that one entry
C28_Witness ==
    /\ Len(calculation_cache) = 1
    /\ resp.op = "calculate"
    /\ ~resp.ret.success
    /\ resp.ret.message = "Scenario validation failed"
    /\ calc_stages = <<"validate">>

WrongType(parameters) ==
    \/ ~parameters.years.is_list
    \/ ~parameters.target_emissions_reduction.num
    \/ ~parameters.max_annual_change.num

\* C29: for every parameters map that has the four required keys,
\* validate_scenario_parameters returns a result and raises nothing; when
\* years is not a list, or target_emissions_reduction or max_annual_change
\* is not a number, the result has valid = false and reports it in errors.
C29_WrongTypeIsReported ==
    (ValDone /\ MissingKeys(val.given) = <<>>)
    => /\ ValReturned(1)
       /\ WrongType(val.given)
             => ~val.returned[1].valid /\ val.returned[1].errors # <<>>

\* C30: in the detailed results the optimizer returns, summary.target_achieved
\* is true exactly when the achieved reduction (total_reduction_percent) is
\* at least the target_emissions_reduction of the call.
C30_TargetAchievedMatchesTarget ==
    (OptReturned /\ "results" \in DOMAIN opt_ret)
    => LET summary == opt_ret.results.summary
       IN  summary.target_achieved
              = (summary.reduction_num
                    >= opt_in.target_reduction * summary.initial_emissions)

\* C26: whatever create, update and optimize requests came before,
\* optimize_transport_pathway is only invoked with parameters that
\* validate_scenario_parameters reports as valid.
C26_OptimizerGetsValidInput ==
    (api.op = "optimize" /\ api.invoked)
    => LET validation == validate_scenario_parameters(api.optimization_data)
       IN  "valid" \in DOMAIN validation /\ validation.valid

\* the requests whose handler has begun and not ended
InHandler == {i \in 1..Len(tasks) : tasks[i].pc \notin {"pending", "done"}}

\* C27: with calculation and lookup requests served concurrently, accesses
\* to the calculation cache exclude each other: at most one handler is
\* between its begin and its end, a scan sees the dictionary at the size it
\* had when the scan began, and no request fails on a dictionary that
\* changed under its scan.
C27_CacheAccessesExclusive ==
    /\ Cardinality(InHandler) <= 1
    /\ \A i \in 1..Len(tasks) :
          /\ tasks[i].raised # "RuntimeError"
          /\ tasks[i].pc = "scan" => tasks[i].expect = Len(calculation_cache)

\* a lookup arrived while the handler of a calculation was running, the
\* calculation was cached, and the lookup then found it behind an entry of
\* another scenario
C27_Witness ==
    \E i, j \in 1..Len(tasks) :
        /\ tasks[i].kind = "calculate"
        /\ tasks[i].status = 200
        /\ tasks[j].kind = "get"
        /\ tasks[j].arrived_during = i
        /\ tasks[j].status = 200
        /\ tasks[j].pos = 2
        /\ tasks[j].ret = tasks[i].ret.results

====
